---- MODULE Spec2Model ----
(***************************************************************************)
(* A model of the hierarchical bloom-filter index of LSMColumnFamily:      *)
(*   bloom/bloom_value.cpp      BloomFilter (insert, exists, merge,        *)
(*                              saveToFile, loadFromFile)                  *)
(*   bloom/bloomTree.cpp        BloomTree (buildLevel, buildTree,          *)
(*                              searchNodes, queryNodes)                   *)
(*   src/bloom_manager.cpp      BloomManager (processSSTFile,              *)
(*                              createPartitionedHierarchy)                *)
(*   include/algorithm.hpp      multiColumnQueryHierarchical,              *)
(*                              dfsMultiColumn, finalSstScanAndIntersect   *)
(*   src/db_manager.cpp         DBManager (scanFileForKeysWithValue,       *)
(*                              findUsingSingleHierarchy)                  *)
(*                                                                         *)
(* Row keys are std::string in the source and are compared with the        *)
(* lexicographic <, <=, std::min and std::max.  They are modelled by the   *)
(* integers 1..MaxKey in that order, and the empty string by 0, which is   *)
(* below every key exactly as "" is below every non-empty string.  Column  *)
(* values are strings that are only hashed and compared for equality; they *)
(* are modelled by small integers.                                         *)
(***************************************************************************)
EXTENDS Integers, Sequences, FiniteSets, TLC

\* ------------------------------------------------------------------ bounds
MaxKey == 3
NumVals == 2
NumFilters == 2

Keys == 1..MaxKey
Values == 1..NumVals
EmptyKey == 0

\* The filter geometries the bloom-filter operations are exercised with:
\* one byte and less, exactly one byte, and more than one byte of payload.
BloomSizes == {3, 8, 10}
\* Hash counts; numHashFunctions is a plain int and is never validated.
HashCounts == {-1, 1, 2}

\* ------------------------------------------------------ BloomFilter (C++)

\* The 32-bit hash of MurmurHash3.h, which is not part of the sources: a
\* fixed function of (key, seed) with values in 0..2^32-1.
MurmurHash3_x86_32(key, seed) ==
    (key * key * 11 + key * 5 + seed * 7 + key * seed * 3 + 2) % 65536

BloomFilter(size, numHashFunctions) ==
    [bitArray |-> [i \in 0..(size - 1) |-> FALSE],
     numHashFunctions |-> numHashFunctions,
     bitArraySize |-> size]

hash(bf, key, seed) == MurmurHash3_x86_32(key, seed) % bf.bitArraySize

\* The seeds the loops "for (int i = 0; i < numHashFunctions; ++i)" visit.
Seeds(bf) == 0..(bf.numHashFunctions - 1)

insert(bf, key) ==
    [bf EXCEPT !.bitArray =
        [i \in DOMAIN @ |-> @[i] \/ (\E s \in Seeds(bf) : hash(bf, key, s) = i)]]

exists(bf, key) == \A s \in Seeds(bf) : bf.bitArray[hash(bf, key, s)]

bitArray_size(bf) == Cardinality(DOMAIN bf.bitArray)

\* merge throws std::runtime_error before it touches a bit.
mergeThrows(bf, other) == bitArray_size(bf) # bitArray_size(other)

mergeAnd(bf, other) ==
    IF mergeThrows(bf, other) THEN bf
    ELSE [bf EXCEPT !.bitArray = [i \in DOMAIN @ |-> @[i] /\ other.bitArray[i]]]

mergeUnchecked(bf, other) ==
    [bf EXCEPT !.bitArray =
        [i \in DOMAIN @ |-> @[i] \/ (i \in DOMAIN other.bitArray /\ other.bitArray[i])]]

merge(bf, other) ==
    IF mergeThrows(bf, other) THEN bf
    ELSE [bf EXCEPT !.bitArray = [i \in DOMAIN @ |-> @[i] \/ other.bitArray[i]]]

\* ------------------------------------------------------ sidecar file format

RECURSIVE LittleEndian(_, _)
\* The `width` bytes file.write emits for an integer (two's complement).
LittleEndian(n, width) ==
    IF width = 0 THEN <<>>
    ELSE <<n % 256>> \o LittleEndian(n \div 256, width - 1)

RECURSIVE ReadUnsigned(_)
ReadUnsigned(bytes) ==
    IF bytes = <<>> THEN 0 ELSE Head(bytes) + 256 * ReadUnsigned(Tail(bytes))

RECURSIVE ReadSigned(_)
ReadSigned(bytes) ==
    IF Len(bytes) = 1
    THEN (IF Head(bytes) >= 128 THEN Head(bytes) - 256 ELSE Head(bytes))
    ELSE Head(bytes) + 256 * ReadSigned(Tail(bytes))

SizeofSizeT == 8
SizeofInt == 4

Pow2(n) == CASE n = 0 -> 1 [] n = 1 -> 2 [] n = 2 -> 4 [] n = 3 -> 8
             [] n = 4 -> 16 [] n = 5 -> 32 [] n = 6 -> 64 [] n = 7 -> 128

RECURSIVE SumBits(_, _)
SumBits(bf, S) ==
    IF S = {} THEN 0
    ELSE LET i == CHOOSE x \in S : TRUE
         IN (IF bf.bitArray[i] THEN Pow2(i % 8) ELSE 0) + SumBits(bf, S \ {i})

\* buffer[i / 8] |= (1 << (i % 8)) for every set bit i.
PackBits(bf, byteSize) ==
    [j \in 1..byteSize |->
        SumBits(bf, {i \in DOMAIN bf.bitArray : i \div 8 = j - 1})]

saveToFileFloor(bf) ==
    LittleEndian(bf.bitArraySize, SizeofSizeT)
      \o LittleEndian(bf.numHashFunctions, SizeofInt)
      \o PackBits(bf, bf.bitArraySize \div 8)

\* The bytes saveToFile writes: m, k, then (m + 7) / 8 bytes of bits.
saveToFile(bf) ==
    LittleEndian(bf.bitArraySize, SizeofSizeT)
      \o LittleEndian(bf.numHashFunctions, SizeofInt)
      \o PackBits(bf, (bf.bitArraySize + 7) \div 8)

HeaderSize == SizeofSizeT + SizeofInt

\* file.read(buffer.data(), buffer.size()) into a zero-filled buffer: the
\* bytes the file still holds, the rest of the buffer left 0.  The result of
\* the read is never tested.
ReadBuffer(bytes, byteSize) ==
    [j \in 1..byteSize |->
        IF HeaderSize + j <= Len(bytes) THEN bytes[HeaderSize + j] ELSE 0]

\* The filter loadFromFile returns for a file that opens and holds at least
\* the 12 header bytes.
loadFromFile(bytes) ==
    LET m == ReadUnsigned(SubSeq(bytes, 1, SizeofSizeT))
        k == ReadSigned(SubSeq(bytes, SizeofSizeT + 1, HeaderSize))
        byteSize == (m + 7) \div 8
        buffer == ReadBuffer(bytes, byteSize)
    IN [bitArray |-> [i \in 0..(m - 1) |->
                        ((buffer[(i \div 8) + 1] \div Pow2(i % 8)) % 2) = 1],
        numHashFunctions |-> k,
        bitArraySize |-> m]

\* ------------------------------------------------------------ Node, BloomTree

Memory == "Memory"

\* Node(BloomFilter bf, fname, start, end): a node without children.
Node(bloom, filename, startKey, endKey) ==
    [children |-> <<>>, bloom |-> bloom, filename |-> filename,
     startKey |-> startKey, endKey |-> endKey]

\* A BloomTree.  Node* is an index into `nodes`, the nodes the tree has
\* allocated; leafNodes are the indices of its leaves, root 0 until built.
BloomTree(branchingRatio, bloomSize, numHashFunctions) ==
    [root |-> 0, ratio |-> branchingRatio, bloomSize |-> bloomSize,
     numHashFunctions |-> numHashFunctions, nodes |-> <<>>, leafNodes |-> <<>>]

Min(a, b) == IF a < b THEN a ELSE b
Max(a, b) == IF a < b THEN b ELSE a

\* ------------------------------------------------ BloomManager::processSSTFile

processRecordKeepStart(st, sstFile, key, value, partitionSize, bloomSize, numHashFunctions) ==
    LET start == IF st.firstEntry THEN key ELSE st.partitionStartKey
        bloom == insert(st.partitionBloom, value)
        count == st.currentCount + 1
    IN IF count >= partitionSize
       THEN [partitions |-> Append(st.partitions, Node(bloom, sstFile, start, key)),
             partitionBloom |-> BloomFilter(bloomSize, numHashFunctions),
             currentCount |-> 0, firstEntry |-> FALSE,
             partitionStartKey |-> start, lastKey |-> key]
       ELSE [partitions |-> st.partitions, partitionBloom |-> bloom,
             currentCount |-> count, firstEntry |-> FALSE,
             partitionStartKey |-> start, lastKey |-> key]

\* One iteration of the loop over the records of a file (lines 37-56).
processRecord(st, sstFile, key, value, partitionSize, bloomSize, numHashFunctions) ==
    LET start == IF st.firstEntry THEN key ELSE st.partitionStartKey
        bloom == insert(st.partitionBloom, value)
        count == st.currentCount + 1
    IN IF count >= partitionSize
       THEN [partitions |-> Append(st.partitions, Node(bloom, sstFile, start, key)),
             partitionBloom |-> BloomFilter(bloomSize, numHashFunctions),
             currentCount |-> 0, firstEntry |-> TRUE,
             partitionStartKey |-> start, lastKey |-> key]
       ELSE [partitions |-> st.partitions, partitionBloom |-> bloom,
             currentCount |-> count, firstEntry |-> FALSE,
             partitionStartKey |-> start, lastKey |-> key]

RECURSIVE processRecords(_, _, _, _, _, _)
processRecords(st, file, i, partitionSize, bloomSize, numHashFunctions) ==
    IF i > Len(file.records) THEN st
    ELSE processRecords(
             processRecord(st, file.filename, file.records[i][1], file.records[i][2],
                           partitionSize, bloomSize, numHashFunctions),
             file, i + 1, partitionSize, bloomSize, numHashFunctions)

processSSTFileDropTail(file, partitionSize, bloomSize, numHashFunctions) ==
    IF ~file.readable THEN <<>> ELSE
    processRecords(
        [partitions |-> <<>>,
         partitionBloom |-> BloomFilter(bloomSize, numHashFunctions),
         currentCount |-> 0, firstEntry |-> TRUE,
         partitionStartKey |-> EmptyKey, lastKey |-> EmptyKey],
        file, 1, partitionSize, bloomSize, numHashFunctions).partitions

\* The leaves of one file, in key order; none when the file cannot be
\* opened (lines 24-28).
processSSTFile(file, partitionSize, bloomSize, numHashFunctions) ==
    LET st == processRecords(
                  [partitions |-> <<>>,
                   partitionBloom |-> BloomFilter(bloomSize, numHashFunctions),
                   currentCount |-> 0, firstEntry |-> TRUE,
                   partitionStartKey |-> EmptyKey, lastKey |-> EmptyKey],
                  file, 1, partitionSize, bloomSize, numHashFunctions)
    IN IF ~file.readable THEN <<>>
       ELSE IF st.currentCount > 0
       THEN Append(st.partitions,
                   Node(st.partitionBloom, file.filename, st.partitionStartKey, st.lastKey))
       ELSE st.partitions

\* ----------------------------------------------------- BloomTree::buildLevel

RECURSIVE addChildrenDropLast(_, _, _, _, _)
addChildrenDropLast(parent, nodes, level, j, end) ==
    IF j >= end THEN parent
    ELSE LET child == nodes[level[j]]
         IN addChildrenDropLast(
                [parent EXCEPT
                    !.startKey = IF @ > child.startKey THEN child.startKey ELSE @,
                    !.endKey = IF @ < child.endKey THEN child.endKey ELSE @,
                    !.bloom = merge(@, child.bloom),
                    !.children = IF j = end - 1 THEN @ ELSE Append(@, level[j])],
                nodes, level, j + 1, end)

RECURSIVE addChildrenFirstOnly(_, _, _, _, _)
addChildrenFirstOnly(parent, nodes, level, j, end) ==
    IF j >= end THEN parent
    ELSE LET child == nodes[level[j]]
         IN addChildrenFirstOnly(
                [parent EXCEPT
                    !.startKey = IF @ > child.startKey THEN child.startKey ELSE @,
                    !.endKey = IF @ < child.endKey THEN child.endKey ELSE @,
                    !.bloom = IF parent.children = <<>> THEN merge(@, child.bloom) ELSE @,
                    !.children = Append(@, level[j])],
                nodes, level, j + 1, end)

RECURSIVE addChildrenNoRange(_, _, _, _, _)
addChildrenNoRange(parent, nodes, level, j, end) ==
    IF j >= end THEN parent
    ELSE LET child == nodes[level[j]]
         IN addChildrenNoRange(
                [parent EXCEPT
                    !.bloom = merge(@, child.bloom),
                    !.children = Append(@, level[j])],
                nodes, level, j + 1, end)

RECURSIVE addChildren(_, _, _, _, _)
\* The loop "for (size_t j = i; j < end; ++j)" over the nodes of one group.
addChildren(parent, nodes, level, j, end) ==
    IF j >= end THEN parent
    ELSE LET child == nodes[level[j]]
         IN addChildren(
                [parent EXCEPT
                    !.startKey = IF @ > child.startKey THEN child.startKey ELSE @,
                    !.endKey = IF @ < child.endKey THEN child.endKey ELSE @,
                    !.bloom = merge(@, child.bloom),
                    !.children = Append(@, level[j])],
                nodes, level, j + 1, end)

makeParentWide(tree, level, i) ==
    LET end == Min(i + tree.ratio + 1, Len(level))
        parent == Node(BloomFilter(tree.bloomSize, tree.numHashFunctions), Memory,
                       tree.nodes[level[i + 1]].startKey, tree.nodes[level[end]].endKey)
    IN addChildren(parent, tree.nodes, level, i + 1, end + 1)

\* The parent built over level[i..end-1] (1-based: level[i+1..end]).
makeParent(tree, level, i) ==
    LET end == Min(i + tree.ratio, Len(level))
        parent == Node(BloomFilter(tree.bloomSize, tree.numHashFunctions), Memory,
                       tree.nodes[level[i + 1]].startKey, tree.nodes[level[end]].endKey)
    IN addChildren(parent, tree.nodes, level, i + 1, end + 1)

\* The root of a tree whose buildLevel call does not return.
NoReturn == -1

RECURSIVE buildLevel(_, _)
\* With an empty level the loop builds no parent and the function calls
\* itself with an empty level again, without end: the call overflows the
\* stack or spins, and in either case never returns.
buildLevel(tree, level) ==
    IF Len(level) = 1 THEN [tree EXCEPT !.root = level[1]]
    ELSE IF Len(level) = 0 THEN [tree EXCEPT !.root = NoReturn]
    ELSE LET groups == (Len(level) + tree.ratio - 1) \div tree.ratio
             parents == [g \in 1..groups |-> makeParent(tree, level, (g - 1) * tree.ratio)]
             parentLevel == [g \in 1..groups |-> Len(tree.nodes) + g]
         IN buildLevel([tree EXCEPT !.nodes = @ \o parents], parentLevel)

\* buildTree's second half: the sidecar file of every leaf.
SidecarName(node) == <<node.filename, node.startKey, node.endKey>>

leafSidecars(tree) ==
    {[name |-> SidecarName(tree.nodes[l]), bytes |-> saveToFile(tree.nodes[l].bloom)] :
        l \in {tree.leafNodes[x] : x \in DOMAIN tree.leafNodes}}

RECURSIVE collectLeaves(_, _, _, _, _)
\* The loop over the futures, in the order of sstFiles.
collectLeaves(sstFiles, f, partitionSize, bloomSize, numHashFunctions) ==
    IF f > Len(sstFiles) THEN <<>>
    ELSE processSSTFile(sstFiles[f], partitionSize, bloomSize, numHashFunctions)
           \o collectLeaves(sstFiles, f + 1, partitionSize, bloomSize, numHashFunctions)

createPartitionedHierarchy(sstFiles, partitionSize, bloomSize, numHashFunctions, branchingRatio) ==
    LET allLeafNodes == collectLeaves(sstFiles, 1, partitionSize, bloomSize,
                                      numHashFunctions)
        hierarchy == [BloomTree(branchingRatio, bloomSize, numHashFunctions) EXCEPT
                         !.nodes = allLeafNodes,
                         !.leafNodes = [x \in 1..Len(allLeafNodes) |-> x]]
    IN buildLevel(hierarchy, hierarchy.leafNodes)


\* ------------------------------- createPartitionedHierarchy on the thread pool

RECURSIVE gatherFrom(_, _)
\* The loop over the futures (lines 97-101) from the f-th on.
gatherFrom(tasks, f) ==
    IF f > Len(tasks) THEN <<>> ELSE tasks[f].nodes \o gatherFrom(tasks, f + 1)

RECURSIVE gatherLeavesAsFinished(_, _)
gatherLeavesAsFinished(tasks, finished) ==
    IF finished = <<>> THEN <<>>
    ELSE tasks[Head(finished)].nodes \o gatherLeavesAsFinished(tasks, Tail(finished))

\* allLeafNodes: the leaves of the tasks in the order the futures were
\* created, which is the order of sstFiles, whatever order they finished in.
gatherLeaves(tasks, finished) == gatherFrom(tasks, 1)

\* fut.get() has returned for every future.
joined(tasks) == \A f \in DOMAIN tasks : tasks[f].ready
\* ---------------------------------------------------------- storage adapter

AllFiles(sst) == UNION {{sst[c][f] : f \in DOMAIN sst[c]} : c \in DOMAIN sst}

\* The file SstFileReader::Open(filename) opens.
FileNamed(sst, filename) == CHOOSE file \in AllFiles(sst) : file.filename = filename

RECURSIVE seek(_, _, _)
\* iter->Seek(rangeStart): the first record at or after rangeStart.
seek(records, i, rangeStart) ==
    IF i > Len(records) \/ records[i][1] >= rangeStart THEN i
    ELSE seek(records, i + 1, rangeStart)

RECURSIVE scanLoopNoEnd(_, _, _, _)
scanLoopNoEnd(records, i, value, rangeEnd) ==
    IF i > Len(records) THEN <<>>
    ELSE (IF records[i][2] = value THEN <<records[i][1]>> ELSE <<>>)
           \o scanLoopNoEnd(records, i + 1, value, rangeEnd)

RECURSIVE scanLoop(_, _, _, _)
\* while (iter->Valid()) { if (!rangeEnd.empty() && key > rangeEnd) break; ... }
scanLoop(records, i, value, rangeEnd) ==
    IF i > Len(records) THEN <<>>
    ELSE IF rangeEnd # EmptyKey /\ records[i][1] > rangeEnd THEN <<>>
    ELSE (IF records[i][2] = value THEN <<records[i][1]>> ELSE <<>>)
           \o scanLoop(records, i + 1, value, rangeEnd)

scanFileForKeysWithValueUnopened(sst, filename, value, rangeStart, rangeEnd) ==
    LET records == FileNamed(sst, filename).records
        first == IF rangeStart # EmptyKey THEN seek(records, 1, rangeStart) ELSE 1
    IN scanLoop(records, first, value, rangeEnd)

\* No keys when the file cannot be opened (lines 441-446).
scanFileForKeysWithValue(sst, filename, value, rangeStart, rangeEnd) ==
    LET records == FileNamed(sst, filename).records
        first == IF rangeStart # EmptyKey THEN seek(records, 1, rangeStart) ELSE 1
    IN IF ~FileNamed(sst, filename).readable THEN <<>>
       ELSE scanLoop(records, first, value, rangeEnd)

NotFound == 0

\* db_->Get(handle of column, key): the stored value, or NotFound.
Get(sst, column, key) ==
    LET hits == {r \in UNION {{sst[column][f].records[x] :
                                   x \in DOMAIN sst[column][f].records} :
                              f \in DOMAIN sst[column]} : r[1] = key}
    IN IF hits = {} THEN NotFound ELSE (CHOOSE r \in hits : TRUE)[2]

\* ------------------------------------------------------------ sequences

SeqToSet(s) == {s[x] : x \in DOMAIN s}

RECURSIVE SetToSeq(_)
\* The elements of a set of keys as a vector (ascending; the iteration
\* order of std::unordered_set is not specified and nothing relies on it).
SetToSeq(S) ==
    IF S = {} THEN <<>>
    ELSE LET least == CHOOSE x \in S : \A y \in S : x <= y
         IN <<least>> \o SetToSeq(S \ {least})

\* ------------------------------------------------ finalSstScanAndIntersect

NodeAt(trees, i, n) == trees[i].nodes[n]

\* The scan dispatched for column i of an all-leaves combo (lines 64-74).
leafScan(trees, combo, values, i) ==
    LET leaf == NodeAt(trees, i, combo.nodes[i])
    IN [column |-> i, filename |-> leaf.filename, value |-> values[i],
        scanStart |-> Max(combo.rangeStart, leaf.startKey),
        scanEnd |-> Min(combo.rangeEnd, leaf.endKey)]

RECURSIVE uniteFrom(_, _, _)
uniteFrom(result, columnKeySets, i) ==
    IF i > Len(columnKeySets) THEN result
    ELSE uniteFrom(result \cup columnKeySets[i], columnKeySets, i + 1)

intersectFromFirstOnly(result, columnKeySets, i) == result

RECURSIVE intersectFrom(_, _, _)
\* The fold of lines 93-103 over columnKeySets[i..].
intersectFrom(result, columnKeySets, i) ==
    IF i > Len(columnKeySets) \/ result = {} THEN result
    ELSE intersectFrom({key \in result : key \in columnKeySets[i]}, columnKeySets, i + 1)

finalSstScanAndIntersect(trees, sst, combo, values) ==
    LET n == Len(combo.nodes)
        scans == [i \in 1..n |-> leafScan(trees, combo, values, i)]
        columnKeySets ==
            [i \in 1..n |->
                SeqToSet(scanFileForKeysWithValue(sst, scans[i].filename, values[i],
                                                  scans[i].scanStart, scans[i].scanEnd))]
    IN [sstChecks |-> n, scans |-> scans,
        keys |-> IF n = 0 THEN <<>>
                 ELSE SetToSeq(intersectFrom(columnKeySets[1], columnKeySets, 2))]

\* ---------------------------------------------------------- dfsMultiColumn

RECURSIVE rootCheckPass(_, _, _, _)
rootCheckPass(trees, values, combo, i) ==
    IF i > Len(combo.nodes) THEN [bloomChecks |-> 0, passed |-> TRUE, probed |-> <<>>]
    ELSE LET rest == rootCheckPass(trees, values, combo, i + 1)
         IN [bloomChecks |-> 1 + rest.bloomChecks, passed |-> TRUE,
             probed |-> <<<<i, combo.nodes[i]>>>> \o rest.probed]

RECURSIVE rootCheck(_, _, _, _)
\* Lines 113-119: one consultation per root, up to the first miss.
rootCheck(trees, values, combo, i) ==
    IF i > Len(combo.nodes) THEN [bloomChecks |-> 0, passed |-> TRUE, probed |-> <<>>]
    ELSE IF ~exists(NodeAt(trees, i, combo.nodes[i]).bloom, values[i])
    THEN [bloomChecks |-> 1, passed |-> FALSE, probed |-> <<<<i, combo.nodes[i]>>>>]
    ELSE LET rest == rootCheck(trees, values, combo, i + 1)
         IN [bloomChecks |-> 1 + rest.bloomChecks, passed |-> rest.passed,
             probed |-> <<<<i, combo.nodes[i]>>>> \o rest.probed]

considerStrict(col, trees, values, i, c, tightStart, tightEnd) ==
    LET nd == NodeAt(trees, i, c)
        counted == [col EXCEPT !.bloomChecks = @ + 1,
                               !.leafChecks = @ + (IF nd.filename # Memory THEN 1 ELSE 0),
                               !.probed = Append(@, <<i, c>>)]
    IN IF nd.endKey <= tightStart \/ nd.startKey >= tightEnd THEN col
       ELSE IF ~exists(nd.bloom, values[i]) THEN counted
       ELSE [counted EXCEPT
                !.options = Append(@, c),
                !.colMin = IF col.found THEN Min(@, nd.startKey) ELSE nd.startKey,
                !.colMax = IF col.found THEN Max(@, nd.endKey) ELSE nd.endKey,
                !.found = TRUE]

considerNoFilter(col, trees, values, i, c, tightStart, tightEnd) ==
    LET nd == NodeAt(trees, i, c)
        counted == [col EXCEPT !.bloomChecks = @ + 1,
                               !.leafChecks = @ + (IF nd.filename # Memory THEN 1 ELSE 0),
                               !.probed = Append(@, <<i, c>>)]
    IN IF nd.endKey < tightStart \/ nd.startKey > tightEnd THEN col
       ELSE [counted EXCEPT
                !.options = Append(@, c),
                !.colMin = IF col.found THEN Min(@, nd.startKey) ELSE nd.startKey,
                !.colMax = IF col.found THEN Max(@, nd.endKey) ELSE nd.endKey,
                !.found = TRUE]

considerNarrow(col, trees, values, i, c, tightStart, tightEnd) ==
    LET nd == NodeAt(trees, i, c)
        counted == [col EXCEPT !.bloomChecks = @ + 1,
                               !.leafChecks = @ + (IF nd.filename # Memory THEN 1 ELSE 0),
                               !.probed = Append(@, <<i, c>>)]
    IN IF nd.endKey < tightStart \/ nd.startKey > tightEnd THEN col
       ELSE IF ~exists(nd.bloom, values[i]) THEN counted
       ELSE [counted EXCEPT
                !.options = Append(@, c),
                !.colMin = IF col.found THEN Max(@, nd.startKey) ELSE nd.startKey,
                !.colMax = IF col.found THEN Min(@, nd.endKey) ELSE nd.endKey,
                !.found = TRUE]

\* The lambda `consider` (lines 150-164) applied to node c of column i.
consider(col, trees, values, i, c, tightStart, tightEnd) ==
    LET nd == NodeAt(trees, i, c)
        counted == [col EXCEPT !.bloomChecks = @ + 1,
                               !.leafChecks = @ + (IF nd.filename # Memory THEN 1 ELSE 0),
                               !.probed = Append(@, <<i, c>>)]
    IN IF nd.endKey < tightStart \/ nd.startKey > tightEnd THEN col
       ELSE IF ~exists(nd.bloom, values[i]) THEN counted
       ELSE [counted EXCEPT
                !.options = Append(@, c),
                !.colMin = IF col.found THEN Min(@, nd.startKey) ELSE nd.startKey,
                !.colMax = IF col.found THEN Max(@, nd.endKey) ELSE nd.endKey,
                !.found = TRUE]

RECURSIVE considerEach(_, _, _, _, _, _, _, _)
considerEach(col, trees, values, i, cands, x, tightStart, tightEnd) ==
    IF x > Len(cands) THEN col
    ELSE considerEach(consider(col, trees, values, i, cands[x], tightStart, tightEnd),
                      trees, values, i, cands, x + 1, tightStart, tightEnd)

candidatesOfSelf(trees, combo, i) == <<combo.nodes[i]>>

candidatesOfTwice(trees, combo, i) ==
    LET node == NodeAt(trees, i, combo.nodes[i])
    IN IF node.filename = Memory THEN node.children \o node.children ELSE <<combo.nodes[i]>>

\* Lines 166-170: the children of an interior node, or a leaf itself.
candidatesOf(trees, combo, i) ==
    LET node == NodeAt(trees, i, combo.nodes[i])
    IN IF node.filename = Memory THEN node.children ELSE <<combo.nodes[i]>>

RECURSIVE candidateColumns(_, _, _, _, _)
\* The loop of lines 145-178 from column i on; st.pruned is its early return.
candidateColumns(st, trees, values, combo, i) ==
    IF i > Len(combo.nodes) THEN st
    ELSE LET col == considerEach([options |-> <<>>, colMin |-> EmptyKey, colMax |-> EmptyKey,
                                  found |-> FALSE, bloomChecks |-> 0, leafChecks |-> 0,
                                  probed |-> <<>>],
                                 trees, values, i, candidatesOf(trees, combo, i), 1,
                                 st.tightStart, st.tightEnd)
             counted == [st EXCEPT !.candidateOptions = Append(@, col.options),
                                   !.bloomChecks = @ + col.bloomChecks,
                                   !.leafChecks = @ + col.leafChecks,
                                   !.probed = @ \o col.probed]
             tightStart == Max(st.tightStart, col.colMin)
             tightEnd == Min(st.tightEnd, col.colMax)
         IN IF ~col.found THEN [counted EXCEPT !.pruned = TRUE]
            ELSE IF i < Len(combo.nodes)
            THEN IF tightStart > tightEnd THEN [counted EXCEPT !.pruned = TRUE]
                 ELSE candidateColumns([counted EXCEPT !.tightStart = tightStart,
                                                       !.tightEnd = tightEnd],
                                       trees, values, combo, i + 1)
            ELSE candidateColumns(counted, trees, values, combo, i + 1)

RECURSIVE backtrack(_, _, _, _, _, _)
RECURSIVE tryCandidates(_, _, _, _, _, _, _)
\* The lambda `backtrack` (lines 185-200): the combos it recurses into, in
\* the order of the calls.
backtrack(trees, candidateOptions, idx, chosen, curS, curE) ==
    IF idx > Len(candidateOptions)
    THEN <<[nodes |-> chosen, rangeStart |-> curS, rangeEnd |-> curE]>>
    ELSE tryCandidates(trees, candidateOptions, idx, chosen, curS, curE, 1)

RECURSIVE tryCandidatesUnchecked(_, _, _, _, _, _, _)
tryCandidatesUnchecked(trees, candidateOptions, idx, chosen, curS, curE, x) ==
    IF x > Len(candidateOptions[idx]) THEN <<>>
    ELSE LET cand == candidateOptions[idx][x]
             ns == Max(curS, NodeAt(trees, idx, cand).startKey)
             ne == Min(curE, NodeAt(trees, idx, cand).endKey)
         IN backtrack(trees, candidateOptions, idx + 1,
                      [chosen EXCEPT ![idx] = cand], ns, ne)
            \o tryCandidatesUnchecked(trees, candidateOptions, idx, chosen, curS, curE,
                                      x + 1)

\* The loop of lines 192-199 over candidateOptions[idx] from the x-th on.
tryCandidates(trees, candidateOptions, idx, chosen, curS, curE, x) ==
    IF x > Len(candidateOptions[idx]) THEN <<>>
    ELSE LET cand == candidateOptions[idx][x]
             ns == Max(curS, NodeAt(trees, idx, cand).startKey)
             ne == Min(curE, NodeAt(trees, idx, cand).endKey)
         IN (IF ns <= ne
             THEN backtrack(trees, candidateOptions, idx + 1,
                            [chosen EXCEPT ![idx] = cand], ns, ne)
             ELSE <<>>)
            \o tryCandidates(trees, candidateOptions, idx, chosen, curS, curE, x + 1)

allLeaves(trees, combo) ==
    \A i \in DOMAIN combo.nodes : NodeAt(trees, i, combo.nodes[i]).filename # Memory

\* One call of dfsMultiColumn, without the calls it recurses into: what it
\* adds to the counters and to globalfinalMatches, and the combos it calls
\* itself with, in order.
dfsMultiColumn(trees, sst, values, currentCombo, isInitialCall) ==
    LET roots == IF isInitialCall THEN rootCheck(trees, values, currentCombo, 1)
                 ELSE [bloomChecks |-> 0, passed |-> TRUE, probed |-> <<>>]
        out == [bloomChecks |-> roots.bloomChecks, leafChecks |-> 0, sstChecks |-> 0,
                keys |-> <<>>, calls |-> <<>>, probed |-> roots.probed, scans |-> <<>>]
        final == finalSstScanAndIntersect(trees, sst, currentCombo, values)
        st == candidateColumns([candidateOptions |-> <<>>,
                                tightStart |-> currentCombo.rangeStart,
                                tightEnd |-> currentCombo.rangeEnd,
                                bloomChecks |-> 0, leafChecks |-> 0, probed |-> <<>>,
                                pruned |-> FALSE],
                               trees, values, currentCombo, 1)
    IN IF ~roots.passed THEN out
       ELSE IF currentCombo.rangeStart > currentCombo.rangeEnd THEN out
       ELSE IF allLeaves(trees, currentCombo)
       THEN [out EXCEPT !.sstChecks = final.sstChecks, !.keys = final.keys,
                        !.scans = final.scans]
       ELSE [out EXCEPT
                !.bloomChecks = @ + st.bloomChecks,
                !.leafChecks = st.leafChecks,
                !.probed = @ \o st.probed,
                !.calls = IF st.pruned THEN <<>>
                          ELSE backtrack(trees, st.candidateOptions, 1,
                                         currentCombo.nodes, currentCombo.rangeStart,
                                         currentCombo.rangeEnd)]

\* ---------------------------------------- multiColumnQueryHierarchical entry

shapeMismatchLoose(trees, values) == Len(trees) = 0 \/ Len(trees) > Len(values)

shapeMismatch(trees, values) == Len(trees) = 0 \/ Len(trees) # Len(values)

RECURSIVE seedRange(_, _, _, _)
\* The loop of lines 230-234 over the roots.
seedRange(trees, i, s, e) ==
    IF i > Len(trees) THEN <<s, e>>
    ELSE seedRange(trees, i + 1,
                   Max(s, NodeAt(trees, i, trees[i].root).startKey),
                   Min(e, NodeAt(trees, i, trees[i].root).endKey))

\* The Combo `start` of lines 226-236.
startCombo(trees, globalStart, globalEnd) ==
    LET s == IF globalStart = EmptyKey THEN NodeAt(trees, 1, trees[1].root).startKey
             ELSE globalStart
        e == IF globalEnd = EmptyKey THEN NodeAt(trees, 1, trees[1].root).endKey
             ELSE globalEnd
        range == seedRange(trees, 1, s, e)
    IN [nodes |-> [i \in 1..Len(trees) |-> trees[i].root],
        rangeStart |-> range[1], rangeEnd |-> range[2]]

\* ------------------------------------------- BloomTree::searchNodes/queryNodes

RECURSIVE searchNodes(_, _, _, _, _)
RECURSIVE searchChildren(_, _, _, _, _, _)
searchNodesStrict(tree, n, value, qStart, qEnd) ==
    IF n = 0 THEN [results |-> <<>>, bloomChecks |-> 0, leafChecks |-> 0]
    ELSE LET node == tree.nodes[n]
             overlaps == /\ (qEnd = EmptyKey \/ node.startKey < qEnd)
                         /\ (qStart = EmptyKey \/ node.endKey > qStart)
             leaf == IF node.filename # Memory THEN 1 ELSE 0
             sub == searchChildren(tree, node.children, 1, value, qStart, qEnd)
         IN IF ~overlaps THEN [results |-> <<>>, bloomChecks |-> 0, leafChecks |-> 0]
            ELSE IF ~exists(node.bloom, value)
            THEN [results |-> <<>>, bloomChecks |-> 1, leafChecks |-> leaf]
            ELSE IF node.children = <<>>
            THEN [results |-> <<n>>, bloomChecks |-> 1, leafChecks |-> leaf]
            ELSE [results |-> sub.results, bloomChecks |-> 1 + sub.bloomChecks,
                  leafChecks |-> leaf + sub.leafChecks]

searchNodes(tree, n, value, qStart, qEnd) ==
    IF n = 0 THEN [results |-> <<>>, bloomChecks |-> 0, leafChecks |-> 0]
    ELSE LET node == tree.nodes[n]
             overlaps == /\ (qEnd = EmptyKey \/ node.startKey <= qEnd)
                         /\ (qStart = EmptyKey \/ node.endKey >= qStart)
             leaf == IF node.filename # Memory THEN 1 ELSE 0
             sub == searchChildren(tree, node.children, 1, value, qStart, qEnd)
         IN IF ~overlaps THEN [results |-> <<>>, bloomChecks |-> 0, leafChecks |-> 0]
            ELSE IF ~exists(node.bloom, value)
            THEN [results |-> <<>>, bloomChecks |-> 1, leafChecks |-> leaf]
            ELSE IF node.children = <<>>
            THEN [results |-> <<n>>, bloomChecks |-> 1, leafChecks |-> leaf]
            ELSE [results |-> sub.results, bloomChecks |-> 1 + sub.bloomChecks,
                  leafChecks |-> leaf + sub.leafChecks]

searchChildren(tree, children, x, value, qStart, qEnd) ==
    IF x > Len(children) THEN [results |-> <<>>, bloomChecks |-> 0, leafChecks |-> 0]
    ELSE LET this == searchNodes(tree, children[x], value, qStart, qEnd)
             rest == searchChildren(tree, children, x + 1, value, qStart, qEnd)
         IN [results |-> this.results \o rest.results,
             bloomChecks |-> this.bloomChecks + rest.bloomChecks,
             leafChecks |-> this.leafChecks + rest.leafChecks]

queryNodes(tree, value, qStart, qEnd) == searchNodes(tree, tree.root, value, qStart, qEnd)

\* ------------------------------------------------- BloomTree::search/query

RECURSIVE search(_, _, _, _, _)
RECURSIVE searchEach(_, _, _, _, _, _)
searchUnbounded(tree, n, value, qStart, qEnd) ==
    IF n = 0 THEN [results |-> <<>>, bloomChecks |-> 0, leafChecks |-> 0]
    ELSE LET node == tree.nodes[n]
             leaf == IF node.filename # Memory THEN 1 ELSE 0
             sub == searchEach(tree, node.children, 1, value, qStart, qEnd)
         IN IF ~exists(node.bloom, value)
            THEN [results |-> <<>>, bloomChecks |-> 1, leafChecks |-> leaf]
            ELSE IF node.filename # Memory
            THEN [results |-> <<node.filename>>, bloomChecks |-> 1, leafChecks |-> leaf]
            ELSE [results |-> sub.results, bloomChecks |-> 1 + sub.bloomChecks,
                  leafChecks |-> leaf + sub.leafChecks]

\* search (lines 59-86): the source paths it appends to `results` and what
\* it adds to the counters; a node is a leaf when its filename is not
\* "Memory".
search(tree, n, value, qStart, qEnd) ==
    IF n = 0 THEN [results |-> <<>>, bloomChecks |-> 0, leafChecks |-> 0]
    ELSE LET node == tree.nodes[n]
             overlaps == /\ (qEnd = EmptyKey \/ node.startKey <= qEnd)
                         /\ (qStart = EmptyKey \/ node.endKey >= qStart)
             leaf == IF node.filename # Memory THEN 1 ELSE 0
             sub == searchEach(tree, node.children, 1, value, qStart, qEnd)
         IN IF ~overlaps THEN [results |-> <<>>, bloomChecks |-> 0, leafChecks |-> 0]
            ELSE IF ~exists(node.bloom, value)
            THEN [results |-> <<>>, bloomChecks |-> 1, leafChecks |-> leaf]
            ELSE IF node.filename # Memory
            THEN [results |-> <<node.filename>>, bloomChecks |-> 1, leafChecks |-> leaf]
            ELSE [results |-> sub.results, bloomChecks |-> 1 + sub.bloomChecks,
                  leafChecks |-> leaf + sub.leafChecks]

\* The loop of lines 80-82 over the children from the x-th on.
searchEach(tree, children, x, value, qStart, qEnd) ==
    IF x > Len(children) THEN [results |-> <<>>, bloomChecks |-> 0, leafChecks |-> 0]
    ELSE LET this == search(tree, children[x], value, qStart, qEnd)
             rest == searchEach(tree, children, x + 1, value, qStart, qEnd)
         IN [results |-> this.results \o rest.results,
             bloomChecks |-> this.bloomChecks + rest.bloomChecks,
             leafChecks |-> this.leafChecks + rest.leafChecks]

\* BloomTree::query (lines 88-94).
treeQuery(tree, value, qStart, qEnd) == search(tree, tree.root, value, qStart, qEnd)

\* ------------------------------------------ DBManager::findUsingSingleHierarchy

RECURSIVE scanCandidates(_, _, _, _, _)
\* The scans of lines 559-595, joined in candidate order.
scanCandidates(hierarchy, sst, candidates, x, value) ==
    IF x > Len(candidates) THEN <<>>
    ELSE LET node == hierarchy.nodes[candidates[x]]
         IN scanFileForKeysWithValue(sst, node.filename, value, node.startKey, node.endKey)
              \o scanCandidates(hierarchy, sst, candidates, x + 1, value)

\* The point-get task of one key (lines 608-658): columns[1..] of the
\* source are columns 2.. here.
allColumnsMatchFrom(sst, columns, values, key, from) ==
    \A i \in from..Len(columns) : Get(sst, columns[i], key) = values[i]

allColumnsMatchSkipLast(sst, columns, values, key) ==
    \A i \in 2..(Len(columns) - 1) : Get(sst, columns[i], key) = values[i]

allColumnsMatch(sst, columns, values, key) ==
    allColumnsMatchFrom(sst, columns, values, key, 2)

findUsingSingleHierarchy(hierarchy, sst, columns, values) ==
    LET found == queryNodes(hierarchy, values[1], EmptyKey, EmptyKey)
        candidates == found.results
        allKeys == scanCandidates(hierarchy, sst, candidates, 1, values[1])
    IN IF Len(columns) # Len(values) \/ Len(columns) = 0
       THEN [status |-> "threw", keys |-> <<>>, bloomChecks |-> 0, leafChecks |-> 0,
             sstStored |-> FALSE, sstChecks |-> 0]
       ELSE IF candidates = <<>>
       THEN [status |-> "returned", keys |-> <<>>, bloomChecks |-> found.bloomChecks,
             leafChecks |-> found.leafChecks, sstStored |-> FALSE, sstChecks |-> 0]
       ELSE [status |-> "returned",
             keys |-> SelectSeq(allKeys,
                                LAMBDA key : allColumnsMatch(sst, columns, values, key)),
             bloomChecks |-> found.bloomChecks, leafChecks |-> found.leafChecks,
             sstStored |-> TRUE, sstChecks |-> Len(candidates)]

\* ------------------------------------------------------------------ inputs

Columns == {1, 2}

\* The values a column stores: the one a query asks for and one other.
ColumnValues == {1, 2}

\* The SST files a column can have, in the order scanSSTFilesForColumn lists
\* them, by the keys each holds: one file; or two files whose key ranges
\* interleave, the one that starts later listed first.
Layouts ==
    {<<Keys>>,
     <<{key \in Keys : key % 2 = 0}, {key \in Keys : key % 2 = 1}>>}

SstNames ==
    <<<<"a/000011.sst", "a/000012.sst", "a/000013.sst", "a/000014.sst", "a/000015.sst">>,
      <<"b/000021.sst", "b/000022.sst", "b/000023.sst", "b/000024.sst", "b/000025.sst">>>>

\* The files of column c: every key of the column in exactly one file, each
\* file sorted by key; `readable` tells whether SstFileReader::Open succeeds.
SstFiles(c, layout, content) ==
    [f \in DOMAIN layout |->
        [filename |-> SstNames[c][f], readable |-> TRUE,
         records |-> [x \in 1..Cardinality(layout[f]) |->
                        LET key == SetToSeq(layout[f])[x] IN <<key, content[key]>>]]]

\* itemsPerPartition and bloomTreeRatio of TestParams.
BuildParams ==
    {[partitionSize |-> 1, branchingRatio |-> 2],
     [partitionSize |-> 1, branchingRatio |-> 3],
     [partitionSize |-> 2, branchingRatio |-> 2],
     [partitionSize |-> MaxKey, branchingRatio |-> 2]}

\* bloomSize and numHashFunctions of TestParams: one where a filter holding
\* only value 2 tests positive for value 1, one without false positives.
Geometries == {<<2, 2>>, <<4, 1>>}

\* What earlier queries of the process may have left in the globals.
Leftovers ==
    {[bloom |-> 0, leaf |-> 0, sst |-> 0, matches |-> <<>>],
     [bloom |-> 5, leaf |-> 2, sst |-> 4, matches |-> <<MaxKey>>]}

GlobalRanges == {<<EmptyKey, EmptyKey>>, <<2, EmptyKey>>, <<EmptyKey, 2>>, <<2, 2>>}

\* The calls of multiColumnQueryHierarchical: the columns whose trees are
\* passed, the values and the global range.
QueryInputs ==
    {[columns |-> <<1, 2>>, values |-> values, globalStart |-> r[1], globalEnd |-> r[2]] :
        values \in {<<1, 1>>, <<2, 1>>}, r \in GlobalRanges}
    \cup {[columns |-> <<2>>, values |-> <<1>>, globalStart |-> EmptyKey,
           globalEnd |-> EmptyKey],
          [columns |-> <<>>, values |-> <<>>, globalStart |-> EmptyKey,
           globalEnd |-> EmptyKey],
          [columns |-> <<1, 2>>, values |-> <<1>>, globalStart |-> EmptyKey,
           globalEnd |-> EmptyKey],
          [columns |-> <<1>>, values |-> <<1, 1>>, globalStart |-> EmptyKey,
           globalEnd |-> EmptyKey]}

\* ------------------------------------------------------------------ state
VARIABLES
    bf,          \* the BloomFilter objects under test, by index
    bfInserted,  \* history: the values inserted into each filter, directly
                 \* or through a filter merged into it
    bfFile,      \* the sidecar file: <<>> when absent, else its bytes
    bfSaved,     \* history: the filter as it was when bfFile was written
    bfCut,       \* history: bytes cut from bfFile since it was written
    bfLoaded,    \* outcome of the last loadFromFile
    bfOp,        \* the last BloomFilter operation and its outcome
    sst,         \* per column, its SST files in listing order
    params,      \* TestParams: partitionSize, branchingRatio, bloomSize,
                 \* numHashFunctions
    hierarchies, \* per column, its BloomTree (root 0: not built yet)
    sidecars,    \* the leaf filter files buildTree has written
    pc,          \* "idle", "running" (inside multiColumnQueryHierarchical), "done"
    query,       \* the arguments of the multi-column call
    stack,       \* the pending calls of dfsMultiColumn, innermost first
    gBloomCheckCount,
    gLeafBloomCheckCount,
    gSSTCheckCount,
    globalfinalMatches,
    result,      \* what multiColumnQueryHierarchical returned
    probeLog,    \* history: the <<column, node>> filters this call consulted
    scanLog,     \* history: the file scans this call dispatched
    single,      \* outcome of findUsingSingleHierarchy
    nodesFound,  \* the last queryNodes call and the nodes it returned, and
                 \* the paths BloomTree::query returned for the same arguments
    concurrent,  \* a second thread's multiColumnQueryHierarchical call: its
                 \* pc, arguments, pending dfsMultiColumn calls and result
    futures,     \* the scans finalSstScanAndIntersect has posted to the
                 \* thread pool and not yet intersected, by column
    dfsCalls,    \* history: the dfsMultiColumn calls the running query has entered
    buildTasks   \* the createPartitionedHierarchy call that posts its per-file
                 \* tasks to the thread pool: its column, the task of each
                 \* file, the order the tasks finished in, and whether
                 \* composition has been started

bloomVars == <<bf, bfInserted, bfFile, bfSaved, bfCut, bfLoaded, bfOp>>
buildVars == <<sst, params, hierarchies, sidecars, buildTasks>>
counterVars == <<gBloomCheckCount, gLeafBloomCheckCount, gSSTCheckCount>>
queryVars == <<pc, query, stack, globalfinalMatches, result, probeLog, scanLog, single,
              nodesFound, concurrent, futures, dfsCalls>>

vars == <<bloomVars, buildVars, counterVars, queryVars>>

NoFilter == [bitArray |-> <<>>, numHashFunctions |-> 0, bitArraySize |-> 0]
NoOp == [op |-> "none", this |-> 0, other |-> 0, key |-> 0, err |-> ""]
NoQuery == [columns |-> <<>>, values |-> <<>>, globalStart |-> EmptyKey,
            globalEnd |-> EmptyKey]
NoSingle == [status |-> "none", keys |-> <<>>]
NoCaller == [pc |-> "idle", query |-> NoQuery, stack |-> <<>>, result |-> <<>>]
NoBuild == [column |-> 0, tasks |-> <<>>, finished |-> <<>>, composed |-> FALSE]
NoNodes == [called |-> FALSE, column |-> 0, value |-> 0, qStart |-> EmptyKey,
            qEnd |-> EmptyKey, results |-> <<>>, queried |-> FALSE, paths |-> <<>>]

\* The state of the part of the program a specification leaves alone.
BloomIdle ==
    /\ bf = <<>>
    /\ bfInserted = <<>>
    /\ bfFile = <<>>
    /\ bfSaved = NoFilter
    /\ bfCut = 0
    /\ bfLoaded = [status |-> "none", filter |-> NoFilter]
    /\ bfOp = NoOp

IndexIdle ==
    /\ sst = <<>>
    /\ params = <<>>
    /\ hierarchies = <<>>
    /\ sidecars = {}
    /\ buildTasks = NoBuild
    /\ pc = "idle"
    /\ query = NoQuery
    /\ stack = <<>>
    /\ gBloomCheckCount = 0
    /\ gLeafBloomCheckCount = 0
    /\ gSSTCheckCount = 0
    /\ globalfinalMatches = <<>>
    /\ result = <<>>
    /\ probeLog = <<>>
    /\ scanLog = <<>>
    /\ single = NoSingle
    /\ nodesFound = NoNodes
    /\ concurrent = NoCaller
    /\ futures = <<>>
    /\ dfsCalls = 0

\* ------------------------------------------------- BloomFilter operations

BloomInit ==
    /\ \E k \in HashCounts :
         bf \in [1..NumFilters -> {BloomFilter(size, k) : size \in BloomSizes}]
    /\ bfInserted = [f \in 1..NumFilters |-> {}]
    /\ bfFile = <<>>
    /\ bfSaved = NoFilter
    /\ bfCut = 0
    /\ bfLoaded = [status |-> "none", filter |-> NoFilter]
    /\ bfOp = NoOp
    /\ IndexIdle

Insert(f, key) ==
    /\ bf' = [bf EXCEPT ![f] = insert(@, key)]
    /\ bfInserted' = [bfInserted EXCEPT ![f] = @ \cup {key}]
    /\ bfOp' = [NoOp EXCEPT !.op = "insert", !.this = f, !.key = key]
    /\ UNCHANGED <<bfFile, bfSaved, bfCut, bfLoaded>>
    /\ UNCHANGED <<buildVars, counterVars, queryVars>>

Merge(f, g) ==
    /\ bf' = [bf EXCEPT ![f] = merge(@, bf[g])]
    /\ bfInserted' = [bfInserted EXCEPT
                        ![f] = IF mergeThrows(bf[f], bf[g]) THEN @
                               ELSE @ \cup bfInserted[g]]
    /\ bfOp' = [NoOp EXCEPT !.op = "merge", !.this = f, !.other = g,
                  !.err = IF mergeThrows(bf[f], bf[g])
                          THEN "BloomFilter size mismatch during merge" ELSE ""]
    /\ UNCHANGED <<bfFile, bfSaved, bfCut, bfLoaded>>
    /\ UNCHANGED <<buildVars, counterVars, queryVars>>

SaveToFile(f) ==
    /\ bfFile' = saveToFile(bf[f])
    /\ bfSaved' = bf[f]
    /\ bfCut' = 0
    /\ bfOp' = [NoOp EXCEPT !.op = "saveToFile", !.this = f]
    /\ UNCHANGED <<bf, bfInserted, bfLoaded>>
    /\ UNCHANGED <<buildVars, counterVars, queryVars>>

\* The environment shortens the payload of the sidecar file (a partial
\* write, a damaged copy); the header stays whole.
TruncateFile ==
    /\ Len(bfFile) > HeaderSize
    /\ bfFile' = SubSeq(bfFile, 1, Len(bfFile) - 1)
    /\ bfCut' = bfCut + 1
    /\ bfOp' = [NoOp EXCEPT !.op = "truncate"]
    /\ UNCHANGED <<bf, bfInserted, bfSaved, bfLoaded>>
    /\ UNCHANGED <<buildVars, counterVars, queryVars>>

LoadFromFile ==
    /\ bfLoaded' = IF bfFile = <<>>
                   THEN [status |-> "error", filter |-> NoFilter]
                   ELSE [status |-> "ok", filter |-> loadFromFile(bfFile)]
    /\ bfOp' = [NoOp EXCEPT !.op = "loadFromFile",
                  !.err = IF bfFile = <<>> THEN "Error opening file" ELSE ""]
    /\ UNCHANGED <<bf, bfInserted, bfFile, bfSaved, bfCut>>
    /\ UNCHANGED <<buildVars, counterVars, queryVars>>

BloomNext ==
    \/ \E f \in 1..NumFilters, key \in Values : Insert(f, key)
    \/ \E f, g \in 1..NumFilters : Merge(f, g)

SpecBloom == BloomInit /\ [][BloomNext]_vars

\* The life of one sidecar file: the first filter is filled, written, the
\* file possibly damaged, and read back.
SidecarNext ==
    \/ \E key \in Values : Insert(1, key)
    \/ SaveToFile(1)
    \/ TruncateFile
    \/ LoadFromFile

SpecSidecar == BloomInit /\ [][SidecarNext]_vars

\* ------------------------------------------------------- index and queries

Init ==
    /\ BloomIdle
    /\ \E layout \in [Columns -> Layouts], content \in [Columns -> [Keys -> ColumnValues]] :
         sst = [c \in Columns |-> SstFiles(c, layout[c], content[c])]
    /\ \E p \in BuildParams, g \in Geometries :
         params = [partitionSize |-> p.partitionSize, branchingRatio |-> p.branchingRatio,
                   bloomSize |-> g[1], numHashFunctions |-> g[2]]
    /\ hierarchies = [c \in Columns |->
                        BloomTree(params.branchingRatio, params.bloomSize,
                                  params.numHashFunctions)]
    /\ sidecars = {}
    /\ buildTasks = NoBuild
    /\ pc = "idle"
    /\ query = NoQuery
    /\ stack = <<>>
    /\ \E left \in Leftovers :
         /\ gBloomCheckCount = left.bloom
         /\ gLeafBloomCheckCount = left.leaf
         /\ gSSTCheckCount = left.sst
         /\ globalfinalMatches = left.matches
    /\ result = <<>>
    /\ probeLog = <<>>
    /\ scanLog = <<>>
    /\ single = NoSingle
    /\ nodesFound = NoNodes
    /\ concurrent = NoCaller
    /\ futures = <<>>
    /\ dfsCalls = 0

\* createPartitionedHierarchy has returned the tree of column c.
Built(c) == hierarchies[c].root > 0

\* buildHierarchies builds the columns one after the other.
CreatePartitionedHierarchy(c) ==
    /\ hierarchies[c].root = 0
    /\ \A b \in Columns : b < c => Built(b)
    /\ LET tree == createPartitionedHierarchy(sst[c], params.partitionSize,
                                              params.bloomSize, params.numHashFunctions,
                                              params.branchingRatio)
       IN /\ hierarchies' = [hierarchies EXCEPT ![c] = tree]
          /\ sidecars' = sidecars \cup leafSidecars(tree)
    /\ UNCHANGED <<sst, params, buildTasks>>
    /\ UNCHANGED <<bloomVars, counterVars, queryVars>>

resetCountersKeepScans ==
    [bloom |-> 0, leaf |-> 0, sst |-> gSSTCheckCount]

\* Lines 222-224: the values the three counters are set to.
resetCounters == [bloom |-> 0, leaf |-> 0, sst |-> 0]

\* The vector `trees` of the running call.
Trees == [i \in DOMAIN query.columns |-> hierarchies[query.columns[i]]]

MultiColumnQueryHierarchical(q) ==
    /\ pc = "idle"
    /\ \A c \in Columns : Built(c)
    /\ query' = q
    /\ probeLog' = <<>>
    /\ scanLog' = <<>>
    /\ LET trees == [i \in DOMAIN q.columns |-> hierarchies[q.columns[i]]] IN
       IF shapeMismatch(trees, q.values)
       THEN /\ pc' = "done"
            /\ result' = <<>>
            /\ UNCHANGED <<stack, globalfinalMatches, counterVars>>
       ELSE /\ pc' = "running"
            /\ gBloomCheckCount' = resetCounters.bloom
            /\ gLeafBloomCheckCount' = resetCounters.leaf
            /\ gSSTCheckCount' = resetCounters.sst
            /\ globalfinalMatches' = <<>>
            /\ stack' = <<[combo |-> startCombo(trees, q.globalStart, q.globalEnd),
                           isInitialCall |-> TRUE]>>
            /\ UNCHANGED result
    /\ dfsCalls' = 0
    /\ UNCHANGED <<single, nodesFound, concurrent, futures>>
    /\ UNCHANGED <<bloomVars, buildVars>>

DfsMultiColumn ==
    /\ pc = "running"
    /\ stack # <<>>
    /\ LET out == dfsMultiColumn(Trees, sst, query.values, Head(stack).combo,
                                 Head(stack).isInitialCall)
       IN /\ gBloomCheckCount' = gBloomCheckCount + out.bloomChecks
          /\ gLeafBloomCheckCount' = gLeafBloomCheckCount + out.leafChecks
          /\ gSSTCheckCount' = gSSTCheckCount + out.sstChecks
          /\ globalfinalMatches' = globalfinalMatches \o out.keys
          /\ probeLog' = probeLog \o out.probed
          /\ scanLog' = scanLog \o out.scans
          /\ stack' = [x \in 1..Len(out.calls) |->
                          [combo |-> out.calls[x], isInitialCall |-> FALSE]]
                      \o Tail(stack)
    /\ dfsCalls' = dfsCalls + 1
    /\ UNCHANGED <<pc, query, result, single, nodesFound, concurrent, futures>>
    /\ UNCHANGED <<bloomVars, buildVars>>

\* Lines 240-249: the outermost dfsMultiColumn has returned.
QueryReturn ==
    /\ pc = "running"
    /\ stack = <<>>
    /\ pc' = "done"
    /\ result' = globalfinalMatches
    /\ UNCHANGED <<query, stack, globalfinalMatches, probeLog, scanLog, single, nodesFound,
                   concurrent, futures, dfsCalls>>
    /\ UNCHANGED <<bloomVars, buildVars, counterVars>>

\* The drivers call findUsingSingleHierarchy(queryTrees[0], columns, values)
\* right after the multi-column query, with the same columns and values.
FindUsingSingleHierarchy ==
    /\ pc = "done"
    /\ single.status = "none"
    /\ query.columns # <<>>
    /\ LET out == findUsingSingleHierarchy(hierarchies[query.columns[1]], sst,
                                           query.columns, query.values)
       IN /\ single' = [status |-> out.status, keys |-> out.keys]
          /\ gBloomCheckCount' = gBloomCheckCount + out.bloomChecks
          /\ gLeafBloomCheckCount' = gLeafBloomCheckCount + out.leafChecks
          /\ gSSTCheckCount' = IF out.sstStored THEN out.sstChecks ELSE gSSTCheckCount
    /\ UNCHANGED <<pc, query, stack, globalfinalMatches, result, probeLog, scanLog,
                   nodesFound, concurrent, futures, dfsCalls>>
    /\ UNCHANGED <<bloomVars, buildVars>>

Next ==
    \/ \E c \in Columns : CreatePartitionedHierarchy(c)
    \/ \E q \in QueryInputs : MultiColumnQueryHierarchical(q)
    \/ DfsMultiColumn
    \/ QueryReturn
    \/ FindUsingSingleHierarchy

Spec == Init /\ [][Next]_vars

\* ------------------------------------------------ building and probing a tree

\* The values probed for: those a column may store and one more.
ProbeValues == ColumnValues \cup {3}

\* File listings for the builder: those of Layouts, and one file per key with
\* the files listed from the last key down, so that the leaves reach
\* buildLevel out of key order.
TreeLayouts == Layouts \cup {[f \in 1..MaxKey |-> {MaxKey + 1 - f}]}

\* bloomSize and numHashFunctions: those of Geometries, and one where value 3
\* hashes to one bit of value 1 and one bit of value 2.
TreeGeometries == Geometries \cup {<<6, 2>>}

\* Every column stores the same rows, in the same listing.
TreeInit ==
    /\ BloomIdle
    /\ \E layout \in TreeLayouts, content \in [Keys -> ProbeValues] :
         sst = [c \in Columns |-> SstFiles(c, layout, content)]
    /\ \E p \in BuildParams, g \in TreeGeometries :
         params = [partitionSize |-> p.partitionSize, branchingRatio |-> p.branchingRatio,
                   bloomSize |-> g[1], numHashFunctions |-> g[2]]
    /\ hierarchies = [c \in Columns |->
                        BloomTree(params.branchingRatio, params.bloomSize,
                                  params.numHashFunctions)]
    /\ sidecars = {}
    /\ buildTasks = NoBuild
    /\ pc = "idle"
    /\ query = NoQuery
    /\ stack = <<>>
    /\ gBloomCheckCount = 0
    /\ gLeafBloomCheckCount = 0
    /\ gSSTCheckCount = 0
    /\ globalfinalMatches = <<>>
    /\ result = <<>>
    /\ probeLog = <<>>
    /\ scanLog = <<>>
    /\ single = NoSingle
    /\ nodesFound = NoNodes
    /\ concurrent = NoCaller
    /\ futures = <<>>
    /\ dfsCalls = 0

\* One call hierarchy.queryNodes(value, qStart, qEnd) on a built tree.
QueryNodes(c, value, qStart, qEnd) ==
    /\ Built(c)
    /\ ~nodesFound.called
    /\ LET out == queryNodes(hierarchies[c], value, qStart, qEnd)
       IN /\ nodesFound' = [called |-> TRUE, column |-> c, value |-> value,
                            qStart |-> qStart, qEnd |-> qEnd, results |-> out.results,
                            queried |-> FALSE, paths |-> <<>>]
          /\ gBloomCheckCount' = gBloomCheckCount + out.bloomChecks
          /\ gLeafBloomCheckCount' = gLeafBloomCheckCount + out.leafChecks
    /\ UNCHANGED <<pc, query, stack, globalfinalMatches, result, probeLog, scanLog, single,
                   concurrent, futures, dfsCalls>>
    /\ UNCHANGED gSSTCheckCount
    /\ UNCHANGED <<bloomVars, buildVars>>

TreeNext ==
    \/ \E c \in Columns : CreatePartitionedHierarchy(c)
    \/ \E c \in Columns, value \in ProbeValues, r \in GlobalRanges \cup {<<3, 1>>} :
         QueryNodes(c, value, r[1], r[2])

SpecTree == TreeInit /\ [][TreeNext]_vars

\* BloomTree::query called on the tree, the value and the range queryNodes
\* was called with.
Query ==
    /\ nodesFound.called
    /\ ~nodesFound.queried
    /\ LET out == treeQuery(hierarchies[nodesFound.column], nodesFound.value,
                            nodesFound.qStart, nodesFound.qEnd)
       IN /\ nodesFound' = [nodesFound EXCEPT !.queried = TRUE, !.paths = out.results]
          /\ gBloomCheckCount' = gBloomCheckCount + out.bloomChecks
          /\ gLeafBloomCheckCount' = gLeafBloomCheckCount + out.leafChecks
    /\ UNCHANGED <<pc, query, stack, globalfinalMatches, result, probeLog, scanLog, single,
                   concurrent, futures, dfsCalls>>
    /\ UNCHANGED gSSTCheckCount
    /\ UNCHANGED <<bloomVars, buildVars>>

ShapesNext ==
    \/ \E c \in Columns : CreatePartitionedHierarchy(c)
    \/ \E c \in Columns, value \in ProbeValues, r \in GlobalRanges \cup {<<3, 1>>} :
         QueryNodes(c, value, r[1], r[2])
    \/ Query

SpecShapes == TreeInit /\ [][ShapesNext]_vars

\* ------------------------------------------------- two concurrent queries

\* The calls two threads make at the same time: well-shaped, over both
\* columns, without a global range.
ConcurrentInputs ==
    {q \in QueryInputs : Len(q.columns) = 2 /\ Len(q.values) = 2
                           /\ q.globalStart = EmptyKey /\ q.globalEnd = EmptyKey}

\* The process when the threads start: one file per column, filters without
\* false positives, no earlier query.
ConcurrentInit ==
    /\ Init
    /\ \A c \in Columns : Len(sst[c]) = 1
    /\ params.bloomSize = 4
    /\ gBloomCheckCount = 0

\* globalfinalMatches.insert(end, keys) of line 134. The vector is not
\* synchronized: while another thread is inside a call, the insertion races
\* with that thread's accesses, and either takes effect or is lost.
insertOutcomes(matches, keys, racing) ==
    IF racing /\ keys # <<>> THEN {matches \o keys, matches} ELSE {matches \o keys}

\* The first thread: dfsMultiColumn with the second thread possibly inside
\* its own call.
RacingDfsMultiColumn ==
    /\ pc = "running"
    /\ stack # <<>>
    /\ LET out == dfsMultiColumn(Trees, sst, query.values, Head(stack).combo,
                                 Head(stack).isInitialCall)
       IN /\ gBloomCheckCount' = gBloomCheckCount + out.bloomChecks
          /\ gLeafBloomCheckCount' = gLeafBloomCheckCount + out.leafChecks
          /\ gSSTCheckCount' = gSSTCheckCount + out.sstChecks
          /\ globalfinalMatches' \in insertOutcomes(globalfinalMatches, out.keys,
                                                    concurrent.pc = "running")
          /\ probeLog' = probeLog \o out.probed
          /\ scanLog' = scanLog \o out.scans
          /\ stack' = [x \in 1..Len(out.calls) |->
                          [combo |-> out.calls[x], isInitialCall |-> FALSE]]
                      \o Tail(stack)
    /\ dfsCalls' = dfsCalls + 1
    /\ UNCHANGED <<pc, query, result, single, nodesFound, concurrent, futures>>
    /\ UNCHANGED <<bloomVars, buildVars>>

\* The second thread enters multiColumnQueryHierarchical (lines 207-238).
ConcurrentQuery(q) ==
    /\ concurrent.pc = "idle"
    /\ \A c \in Columns : Built(c)
    /\ LET trees == [i \in DOMAIN q.columns |-> hierarchies[q.columns[i]]] IN
       IF shapeMismatch(trees, q.values)
       THEN /\ concurrent' = [pc |-> "done", query |-> q, stack |-> <<>>, result |-> <<>>]
            /\ UNCHANGED <<globalfinalMatches, counterVars>>
       ELSE /\ concurrent' = [pc |-> "running", query |-> q,
                              stack |-> <<[combo |-> startCombo(trees, q.globalStart,
                                                                q.globalEnd),
                                           isInitialCall |-> TRUE]>>,
                              result |-> <<>>]
            /\ gBloomCheckCount' = resetCounters.bloom
            /\ gLeafBloomCheckCount' = resetCounters.leaf
            /\ gSSTCheckCount' = resetCounters.sst
            /\ globalfinalMatches' = <<>>
    /\ UNCHANGED <<pc, query, stack, result, probeLog, scanLog, single, nodesFound, futures,
                   dfsCalls>>
    /\ UNCHANGED <<bloomVars, buildVars>>

\* The second thread runs one call of dfsMultiColumn.
ConcurrentDfsMultiColumn ==
    /\ concurrent.pc = "running"
    /\ concurrent.stack # <<>>
    /\ LET trees == [i \in DOMAIN concurrent.query.columns |->
                        hierarchies[concurrent.query.columns[i]]]
           out == dfsMultiColumn(trees, sst, concurrent.query.values,
                                 Head(concurrent.stack).combo,
                                 Head(concurrent.stack).isInitialCall)
       IN /\ gBloomCheckCount' = gBloomCheckCount + out.bloomChecks
          /\ gLeafBloomCheckCount' = gLeafBloomCheckCount + out.leafChecks
          /\ gSSTCheckCount' = gSSTCheckCount + out.sstChecks
          /\ globalfinalMatches' \in insertOutcomes(globalfinalMatches, out.keys,
                                                    pc = "running")
          /\ concurrent' = [concurrent EXCEPT
                              !.stack = [x \in 1..Len(out.calls) |->
                                            [combo |-> out.calls[x],
                                             isInitialCall |-> FALSE]]
                                        \o Tail(@)]
    /\ UNCHANGED <<pc, query, stack, result, probeLog, scanLog, single, nodesFound, futures,
                   dfsCalls>>
    /\ UNCHANGED <<bloomVars, buildVars>>

\* The second thread returns globalfinalMatches (lines 240-249).
ConcurrentReturn ==
    /\ concurrent.pc = "running"
    /\ concurrent.stack = <<>>
    /\ concurrent' = [concurrent EXCEPT !.pc = "done", !.result = globalfinalMatches]
    /\ UNCHANGED <<pc, query, stack, globalfinalMatches, result, probeLog, scanLog, single,
                   nodesFound, futures, dfsCalls>>
    /\ UNCHANGED <<bloomVars, buildVars, counterVars>>

ConcurrentNext ==
    \/ \E c \in Columns : CreatePartitionedHierarchy(c)
    \/ \E q \in ConcurrentInputs : MultiColumnQueryHierarchical(q)
    \/ RacingDfsMultiColumn
    \/ QueryReturn
    \/ \E q \in ConcurrentInputs : ConcurrentQuery(q)
    \/ ConcurrentDfsMultiColumn
    \/ ConcurrentReturn

SpecConcurrent == ConcurrentInit /\ [][ConcurrentNext]_vars

\* ------------------------------------------- leaf scans on the thread pool

\* The process when a query runs with its scans posted to globalThreadPool:
\* as Init, with no earlier query, the filters that give false positives and
\* as many files in one column as in the other.
PoolInit ==
    /\ Init
    /\ gBloomCheckCount = 0
    /\ params.bloomSize = 2
    /\ \A c \in Columns : Len(sst[c]) = Len(sst[1])

\* The calls made while the scans are followed on the pool: those without a
\* global range.
PoolInputs == {q \in QueryInputs : q.globalStart = EmptyKey /\ q.globalEnd = EmptyKey}

\* The dfsMultiColumn call at the head of the stack passes the root and
\* range checks and holds only leaves: it calls finalSstScanAndIntersect.
ScanDue ==
    /\ pc = "running"
    /\ stack # <<>>
    /\ LET combo == Head(stack).combo
       IN /\ Head(stack).isInitialCall => rootCheck(Trees, query.values, combo, 1).passed
          /\ combo.rangeStart <= combo.rangeEnd
          /\ allLeaves(Trees, combo)

\* A dfsMultiColumn call that returns or recurses without scanning.
DfsExpand ==
    /\ ~ScanDue
    /\ DfsMultiColumn

\* dfsMultiColumn up to the posts of finalSstScanAndIntersect (lines 113-133,
\* 50-79): one task per column goes to the pool.
PostScans ==
    /\ ScanDue
    /\ futures = <<>>
    /\ LET out == dfsMultiColumn(Trees, sst, query.values, Head(stack).combo,
                                 Head(stack).isInitialCall)
       IN /\ gBloomCheckCount' = gBloomCheckCount + out.bloomChecks
          /\ gLeafBloomCheckCount' = gLeafBloomCheckCount + out.leafChecks
          /\ gSSTCheckCount' = gSSTCheckCount + out.sstChecks
          /\ probeLog' = probeLog \o out.probed
          /\ scanLog' = scanLog \o out.scans
          /\ futures' = [i \in DOMAIN out.scans |->
                            [ready |-> FALSE, scan |-> out.scans[i], keys |-> {}]]
    /\ dfsCalls' = dfsCalls + 1
    /\ UNCHANGED <<pc, query, stack, globalfinalMatches, result, single, nodesFound,
                   concurrent>>
    /\ UNCHANGED <<bloomVars, buildVars>>

\* A pool worker runs the task posted for column i (lines 68-78) and fulfils
\* its promise.
RunScan(i) ==
    /\ i \in DOMAIN futures
    /\ ~futures[i].ready
    /\ futures' = [futures EXCEPT
                     ![i] = [ready |-> TRUE, scan |-> @.scan,
                             keys |-> SeqToSet(scanFileForKeysWithValue(
                                          sst, @.scan.filename, @.scan.value,
                                          @.scan.scanStart, @.scan.scanEnd))]]
    /\ UNCHANGED <<pc, query, stack, globalfinalMatches, result, probeLog, scanLog, single,
                   nodesFound, concurrent, dfsCalls>>
    /\ UNCHANGED <<bloomVars, buildVars, counterVars>>

collectedFirst(futs) == futs[1].ready

\* Lines 84-86: fut.get() has returned for every future.
collected(futs) == \A i \in DOMAIN futs : futs[i].ready

\* The rest of finalSstScanAndIntersect and of the dfsMultiColumn call that
\* made it (lines 81-105, 134-136).
Intersect ==
    /\ pc = "running"
    /\ futures # <<>>
    /\ collected(futures)
    /\ LET columnKeySets == [i \in DOMAIN futures |-> futures[i].keys]
       IN globalfinalMatches' =
              globalfinalMatches
                \o SetToSeq(intersectFrom(columnKeySets[1], columnKeySets, 2))
    /\ stack' = Tail(stack)
    /\ futures' = <<>>
    /\ UNCHANGED <<pc, query, result, probeLog, scanLog, single, nodesFound, concurrent,
                   dfsCalls>>
    /\ UNCHANGED <<bloomVars, buildVars, counterVars>>

\* The calling thread enters the dfsMultiColumn call that is pending: a
\* DfsExpand or a PostScans step.
EnterDfs ==
    /\ pc = "running"
    /\ stack # <<>>
    /\ futures = <<>>
    /\ dfsCalls' = dfsCalls + 1

PoolNext ==
    \/ \E c \in Columns : CreatePartitionedHierarchy(c)
    \/ \E q \in PoolInputs : MultiColumnQueryHierarchical(q)
    \/ DfsExpand
    \/ PostScans
    \/ \E i \in Columns : RunScan(i)
    \/ Intersect
    \/ QueryReturn

\* The calling thread keeps running, and the pool runs every posted task.
SpecPool ==
    /\ PoolInit
    /\ [][PoolNext]_vars
    /\ WF_dfsCalls(EnterDfs)
    /\ WF_vars(Intersect)
    /\ WF_vars(QueryReturn)
    /\ WF_vars(\E i \in Columns : RunScan(i))

\* ---------------------------------------------- the build on the thread pool

\* The columns before the build: the rows and listings of TreeInit's columns
\* over ColumnValues, with any of the files unreadable (the same ones in
\* every column).
BuildInit ==
    /\ BloomIdle
    /\ \E layout \in TreeLayouts, content \in [Keys -> ColumnValues],
          lost \in SUBSET (1..MaxKey) :
         sst = [c \in Columns |->
                  [f \in DOMAIN layout |->
                      [SstFiles(c, layout, content)[f] EXCEPT !.readable = f \notin lost]]]
    /\ \E p \in BuildParams :
         params = [partitionSize |-> p.partitionSize, branchingRatio |-> p.branchingRatio,
                   bloomSize |-> 4, numHashFunctions |-> 1]
    /\ hierarchies = [c \in Columns |->
                        BloomTree(params.branchingRatio, params.bloomSize,
                                  params.numHashFunctions)]
    /\ sidecars = {}
    /\ buildTasks = NoBuild
    /\ pc = "idle"
    /\ query = NoQuery
    /\ stack = <<>>
    /\ gBloomCheckCount = 0
    /\ gLeafBloomCheckCount = 0
    /\ gSSTCheckCount = 0
    /\ globalfinalMatches = <<>>
    /\ result = <<>>
    /\ probeLog = <<>>
    /\ scanLog = <<>>
    /\ single = NoSingle
    /\ nodesFound = NoNodes
    /\ concurrent = NoCaller
    /\ futures = <<>>
    /\ dfsCalls = 0

\* createPartitionedHierarchy(c) up to the posts (lines 71-95): one
\* packaged task per file goes to globalThreadPool.
PostPartitionTasks(c) ==
    /\ hierarchies[c].root = 0
    /\ \A b \in Columns : b < c => Built(b)
    /\ buildTasks.column # c
    /\ buildTasks' = [column |-> c,
                      tasks |-> [f \in DOMAIN sst[c] |-> [ready |-> FALSE, nodes |-> <<>>]],
                      finished |-> <<>>, composed |-> FALSE]
    /\ UNCHANGED <<sst, params, hierarchies, sidecars>>
    /\ UNCHANGED <<bloomVars, counterVars, queryVars>>

\* A pool worker runs the task of the f-th file: processSSTFile.
RunPartitionTask(f) ==
    /\ buildTasks.column # 0
    /\ f \in DOMAIN buildTasks.tasks
    /\ ~buildTasks.tasks[f].ready
    /\ buildTasks' = [buildTasks EXCEPT
                        !.tasks[f] = [ready |-> TRUE,
                                      nodes |-> processSSTFile(sst[buildTasks.column][f],
                                                               params.partitionSize,
                                                               params.bloomSize,
                                                               params.numHashFunctions)],
                        !.finished = Append(@, f)]
    /\ UNCHANGED <<sst, params, hierarchies, sidecars>>
    /\ UNCHANGED <<bloomVars, counterVars, queryVars>>

\* The rest of createPartitionedHierarchy (lines 97-108): the futures are
\* collected and buildTree composes the levels and writes the sidecars.
ComposeHierarchy ==
    /\ buildTasks.column # 0
    /\ ~buildTasks.composed
    /\ joined(buildTasks.tasks)
    /\ LET c == buildTasks.column
           allLeafNodes == gatherLeaves(buildTasks.tasks, buildTasks.finished)
           hierarchy == [hierarchies[c] EXCEPT
                            !.nodes = allLeafNodes,
                            !.leafNodes = [x \in 1..Len(allLeafNodes) |-> x]]
           tree == buildLevel(hierarchy, hierarchy.leafNodes)
       IN /\ hierarchies' = [hierarchies EXCEPT ![c] = tree]
          /\ sidecars' = IF tree.root = NoReturn THEN sidecars
                         ELSE sidecars \cup leafSidecars(tree)
    /\ buildTasks' = [buildTasks EXCEPT !.composed = TRUE]
    /\ UNCHANGED <<sst, params>>
    /\ UNCHANGED <<bloomVars, counterVars, queryVars>>

BuildNext ==
    \/ \E c \in Columns : PostPartitionTasks(c)
    \/ \E f \in 1..MaxKey : RunPartitionTask(f)
    \/ ComposeHierarchy

SpecBuild == BuildInit /\ [][BuildNext]_vars

\* ------------------------------------------- a query over files that are gone

\* The calls made over such files: well-shaped, over both columns.
ScanFailureInputs == {q \in QueryInputs : Len(q.columns) = 2 /\ Len(q.values) = 2}

\* The process before the trees are built: filters without false
\* positives, no earlier query.
ScanFailureInit ==
    /\ BloomIdle
    /\ \E layout \in [Columns -> Layouts], content \in [Columns -> [Keys -> ColumnValues]] :
         sst = [c \in Columns |-> SstFiles(c, layout[c], content[c])]
    /\ \E p \in BuildParams :
         params = [partitionSize |-> p.partitionSize, branchingRatio |-> p.branchingRatio,
                   bloomSize |-> 4, numHashFunctions |-> 1]
    /\ hierarchies = [c \in Columns |->
                        BloomTree(params.branchingRatio, params.bloomSize,
                                  params.numHashFunctions)]
    /\ sidecars = {}
    /\ buildTasks = NoBuild
    /\ pc = "idle"
    /\ query = NoQuery
    /\ stack = <<>>
    /\ gBloomCheckCount = 0
    /\ gLeafBloomCheckCount = 0
    /\ gSSTCheckCount = 0
    /\ globalfinalMatches = <<>>
    /\ result = <<>>
    /\ probeLog = <<>>
    /\ scanLog = <<>>
    /\ single = NoSingle
    /\ nodesFound = NoNodes
    /\ concurrent = NoCaller
    /\ futures = <<>>
    /\ dfsCalls = 0

\* File f of column c is removed after the trees were built and before the
\* query, at most one file of a column: from then on reader.Open(filename)
\* fails for it.
LoseFile(c, f) ==
    /\ pc = "idle"
    /\ \A b \in Columns : Built(b)
    /\ f \in DOMAIN sst[c]
    /\ \A g \in DOMAIN sst[c] : sst[c][g].readable
    /\ sst' = [sst EXCEPT ![c][f].readable = FALSE]
    /\ UNCHANGED <<params, hierarchies, sidecars, buildTasks>>
    /\ UNCHANGED <<bloomVars, counterVars, queryVars>>

ScanFailureNext ==
    \/ \E c \in Columns : CreatePartitionedHierarchy(c)
    \/ \E c \in Columns, f \in 1..MaxKey : LoseFile(c, f)
    \/ \E q \in ScanFailureInputs : MultiColumnQueryHierarchical(q)
    \/ DfsMultiColumn
    \/ QueryReturn

SpecScanFailure == ScanFailureInit /\ [][ScanFailureNext]_vars
\* ------------------------------------------------------------------ claims

\* The stored value of a row key in a column, read off the files.
StoredValue(c, key) ==
    LET hits == {r \in UNION {SeqToSet(sst[c][f].records) : f \in DOMAIN sst[c]} :
                    r[1] = key}
    IN IF hits = {} THEN NotFound ELSE (CHOOSE r \in hits : TRUE)[2]

ShapeOk == Len(query.columns) > 0 /\ Len(query.columns) = Len(query.values)

InGlobalRange(key) ==
    /\ query.globalStart = EmptyKey \/ key >= query.globalStart
    /\ query.globalEnd = EmptyKey \/ key <= query.globalEnd

RowMatches(key) ==
    \A i \in DOMAIN query.columns : StoredValue(query.columns[i], key) = query.values[i]

RootOf(i) == NodeAt(Trees, i, Trees[i].root)

\* A leaf whose filter tests positive for the requested value although none
\* of the records it summarizes holds that value.
LeafFalsePositive(i, n) ==
    LET node == NodeAt(Trees, i, n)
    IN /\ node.filename # Memory
       /\ exists(node.bloom, query.values[i])
       /\ \A r \in SeqToSet(FileNamed(sst, node.filename).records) :
            (node.startKey <= r[1] /\ r[1] <= node.endKey) => r[2] # query.values[i]

\* C1: when multiColumnQueryHierarchical has returned, every row key inside
\* the global range whose stored value equals values[i] in every column i
\* is in the returned list.
C1_NoFalseNegatives ==
    (pc = "done" /\ ShapeOk) =>
        \A key \in Keys : (InGlobalRange(key) /\ RowMatches(key)) => key \in SeqToSet(result)

C1_Witness ==
    /\ pc = "done" /\ Len(query.columns) = 2
    /\ query.globalStart # EmptyKey
    /\ \A i \in 1..2 : RootOf(i).filename = Memory
    /\ \E key \in Keys : InGlobalRange(key) /\ RowMatches(key) /\ key \in SeqToSet(result)

\* C2: the returned keys are exactly the row keys inside the global range
\* that hold values[i] in every column i, also when filters gave false
\* positives.
C2_Exact ==
    (pc = "done" /\ ShapeOk) =>
        SeqToSet(result) = {key \in Keys : InGlobalRange(key) /\ RowMatches(key)}

C2_Witness ==
    /\ pc = "done" /\ Len(query.columns) = 2
    /\ result # <<>>
    /\ \E x \in DOMAIN probeLog : LeafFalsePositive(probeLog[x][1], probeLog[x][2])
    /\ \E x \in DOMAIN scanLog :
         LeafFalsePositive(scanLog[x].column,
                           CHOOSE n \in DOMAIN Trees[scanLog[x].column].nodes :
                               LET node == NodeAt(Trees, scanLog[x].column, n)
                               IN /\ node.filename = scanLog[x].filename
                                  /\ node.startKey <= scanLog[x].scanStart
                                  /\ scanLog[x].scanEnd <= node.endKey)

\* C3: no returned key lies below globalStart or above globalEnd (an empty
\* bound leaves that side open).
C3_RangeSound ==
    pc = "done" => \A key \in SeqToSet(result) : InGlobalRange(key)

C3_Witness ==
    /\ pc = "done"
    /\ query.globalStart # EmptyKey /\ query.globalEnd # EmptyKey
    /\ result # <<>>
    /\ \E key \in Keys : RowMatches(key) /\ key < query.globalStart
    /\ \E key \in Keys : RowMatches(key) /\ key > query.globalEnd

\* C4: with an unbounded global range, findUsingSingleHierarchy on the
\* first column's tree returns the same set of keys as
\* multiColumnQueryHierarchical for the same columns and values.
C4_SingleAgreesWithMulti ==
    (pc = "done" /\ single.status = "returned"
        /\ query.globalStart = EmptyKey /\ query.globalEnd = EmptyKey) =>
        SeqToSet(single.keys) = SeqToSet(result)

C4_Witness ==
    /\ pc = "done" /\ single.status = "returned"
    /\ Len(query.columns) = 2
    /\ query.globalStart = EmptyKey /\ query.globalEnd = EmptyKey
    /\ single.keys # <<>>
    /\ \E key \in Keys :
         /\ StoredValue(query.columns[1], key) = query.values[1]
         /\ StoredValue(query.columns[2], key) # query.values[2]

C6_SaveLoadRoundTrip ==
    (bfOp.op = "loadFromFile" /\ bfLoaded.status = "ok" /\ bfCut = 0) =>
        /\ bfLoaded.filter.bitArraySize = bfSaved.bitArraySize
        /\ bfLoaded.filter.numHashFunctions = bfSaved.numHashFunctions
        /\ DOMAIN bfLoaded.filter.bitArray = DOMAIN bfSaved.bitArray
        /\ \A i \in DOMAIN bfSaved.bitArray :
             bfLoaded.filter.bitArray[i] = bfSaved.bitArray[i]
        /\ \A key \in Values : exists(bfLoaded.filter, key) = exists(bfSaved, key)

C6_Witness ==
    /\ bfOp.op = "loadFromFile" /\ bfLoaded.status = "ok" /\ bfCut = 0
    /\ bfSaved.bitArraySize % 8 # 0
    /\ bfSaved.bitArraySize > 8
    /\ \E i \in DOMAIN bfSaved.bitArray : i >= 8 /\ bfSaved.bitArray[i]
    /\ \E key \in Values : ~exists(bfLoaded.filter, key)

\* C7: a merge across different m fails with the size-mismatch error and
\* changes no bit of any filter; a merge across equal m succeeds, leaves in
\* this filter the OR of the two bit arrays and changes no other filter.
C7_Merge ==
    [][bfOp'.op = "merge" =>
         LET this == bfOp'.this
             other == bfOp'.other
         IN IF bf[this].bitArraySize # bf[other].bitArraySize
            THEN bfOp'.err = "BloomFilter size mismatch during merge" /\ bf' = bf
            ELSE /\ bfOp'.err = ""
                 /\ bf'[this].bitArray =
                        [i \in DOMAIN bf[this].bitArray |->
                            bf[this].bitArray[i] \/ bf[other].bitArray[i]]
                 /\ \A f \in DOMAIN bf : f # this => bf'[f] = bf[f]
                 /\ bf'[other].bitArray = IF other = this THEN bf'[this].bitArray
                                          ELSE bf[other].bitArray]_vars

C7_Witness ==
    /\ bfOp.op = "merge" /\ bfOp.err # ""
    /\ bfInserted[bfOp.this] # {} /\ bfInserted[bfOp.other] # {}

\* C8: loadFromFile rejects a file whose payload is not the ceil(m / 8)
\* bytes its header announces.
C8_TruncatedFileRejected ==
    (/\ bfOp.op = "loadFromFile"
     /\ Len(bfFile) >= HeaderSize
     /\ Len(bfFile) - HeaderSize
            # (ReadUnsigned(SubSeq(bfFile, 1, SizeofSizeT)) + 7) \div 8)
        => bfLoaded.status = "error"

\* C9: a call with no tree, or with a number of trees other than the number
\* of values, returns the empty list at once: it consults no filter,
\* dispatches no scan and leaves the three counters and globalfinalMatches
\* as they were.
C9_ShapeMismatchRejected ==
    [][(pc = "idle" /\ pc' # "idle"
          /\ (Len(query'.columns) = 0 \/ Len(query'.columns) # Len(query'.values))) =>
         /\ pc' = "done"
         /\ result' = <<>>
         /\ probeLog' = <<>> /\ scanLog' = <<>>
         /\ gBloomCheckCount' = gBloomCheckCount
         /\ gLeafBloomCheckCount' = gLeafBloomCheckCount
         /\ gSSTCheckCount' = gSSTCheckCount
         /\ globalfinalMatches' = globalfinalMatches]_vars

C9_Witness ==
    /\ pc = "done" /\ single.status = "none"
    /\ Len(query.columns) = 2 /\ Len(query.values) = 1
    /\ gBloomCheckCount > 0 /\ globalfinalMatches # <<>>

\* C10: when some root's filter tests negative for its column's value, the
\* call returns the empty list, has consulted root filters only and has
\* dispatched no scan, so that the file-scan counter is 0 at return.
C10_RootMiss ==
    (pc = "done" /\ ShapeOk /\ single.status = "none"
        /\ \E i \in DOMAIN query.columns : ~exists(RootOf(i).bloom, query.values[i])) =>
        /\ result = <<>>
        /\ \A x \in DOMAIN probeLog : probeLog[x][2] = Trees[probeLog[x][1]].root
        /\ scanLog = <<>>
        /\ gSSTCheckCount = 0
        /\ gLeafBloomCheckCount = 0

C10_Witness ==
    /\ pc = "done" /\ Len(query.columns) = 2 /\ Len(query.values) = 2
    /\ exists(RootOf(1).bloom, query.values[1])
    /\ ~exists(RootOf(2).bloom, query.values[2])
    /\ RootOf(1).filename = Memory
    /\ \E key \in Keys : StoredValue(query.columns[1], key) = query.values[1]
    /\ Len(probeLog) = 2

\* ---------------------------------------------------------- built trees

BuiltColumns == {c \in Columns : Built(c)}

InteriorNodes(tree) == {n \in DOMAIN tree.nodes : tree.nodes[n].children # <<>>}

RECURSIVE DescendantLeaves(_, _)
\* The leaves below node n of a tree (n itself when it has no children).
DescendantLeaves(tree, n) ==
    IF tree.nodes[n].children = <<>> THEN {n}
    ELSE UNION {DescendantLeaves(tree, tree.nodes[n].children[x]) :
                    x \in DOMAIN tree.nodes[n].children}

RECURSIVE Depth(_, _)
Depth(tree, n) ==
    IF tree.nodes[n].children = <<>> THEN 1
    ELSE 1 + Depth(tree, tree.nodes[n].children[1])

\* C11 (as stated): an interior node whose filter tests positive for a value
\* has a descendant leaf whose filter tests positive for that value.
C11_InteriorPositiveHasPositiveLeaf ==
    \A c \in BuiltColumns : \A n \in InteriorNodes(hierarchies[c]) : \A v \in ProbeValues :
        exists(hierarchies[c].nodes[n].bloom, v) =>
            \E l \in DescendantLeaves(hierarchies[c], n) :
                exists(hierarchies[c].nodes[l].bloom, v)

\* C11 (amended): when an interior node's filter tests positive for a value,
\* every bit the value hashes to is set in the filter of some descendant
\* leaf, not necessarily the same leaf for all bits; with one hash function
\* that leaf tests positive for the value.
C11_InteriorBitsComeFromLeaves ==
    \A c \in BuiltColumns : \A n \in InteriorNodes(hierarchies[c]) : \A v \in ProbeValues :
        LET tree == hierarchies[c]
            node == tree.nodes[n]
        IN exists(node.bloom, v) =>
            /\ \A s \in Seeds(node.bloom) :
                 \E l \in DescendantLeaves(tree, n) :
                     tree.nodes[l].bloom.bitArray[hash(tree.nodes[l].bloom, v, s)]
            /\ node.bloom.numHashFunctions = 1 =>
                 \E l \in DescendantLeaves(tree, n) : exists(tree.nodes[l].bloom, v)

C11_Witness ==
    \E c \in BuiltColumns : \E n \in InteriorNodes(hierarchies[c]) : \E v \in ProbeValues :
        LET tree == hierarchies[c]
        IN /\ tree.nodes[n].bloom.numHashFunctions = 2
           /\ exists(tree.nodes[n].bloom, v)
           /\ \A l \in DescendantLeaves(tree, n) : ~exists(tree.nodes[l].bloom, v)
           /\ Depth(tree, tree.root) >= 3

\* C12: the filter of every interior node is the bitwise OR of the filters
\* of its descendant leaves, and a value that tests positive in a leaf tests
\* positive in every ancestor of the leaf.
C12_InteriorIsUnionOfLeaves ==
    \A c \in BuiltColumns : \A n \in InteriorNodes(hierarchies[c]) :
        LET tree == hierarchies[c]
            node == tree.nodes[n]
            leaves == DescendantLeaves(tree, n)
        IN /\ DOMAIN node.bloom.bitArray = 0..(tree.bloomSize - 1)
           /\ \A i \in DOMAIN node.bloom.bitArray :
                node.bloom.bitArray[i] = (\E l \in leaves : tree.nodes[l].bloom.bitArray[i])
           /\ \A l \in leaves : \A v \in ProbeValues :
                exists(tree.nodes[l].bloom, v) => exists(node.bloom, v)

C12_Witness ==
    \E c \in BuiltColumns :
        LET tree == hierarchies[c]
        IN /\ Depth(tree, tree.root) >= 3
           /\ tree.numHashFunctions = 2
           /\ \E l1, l2 \in DescendantLeaves(tree, tree.root) :
                tree.nodes[l1].bloom # tree.nodes[l2].bloom
           /\ \E v \in ProbeValues : ~exists(tree.nodes[tree.root].bloom, v)

\* C13: the startKey of every interior node is the least startKey and its
\* endKey the greatest endKey of its descendant leaves, in whatever order
\* the leaves were composed.
C13_InteriorRangeIsMinMax ==
    \A c \in BuiltColumns : \A n \in InteriorNodes(hierarchies[c]) :
        LET tree == hierarchies[c]
            leaves == DescendantLeaves(tree, n)
        IN /\ \E l \in leaves : tree.nodes[n].startKey = tree.nodes[l].startKey
           /\ \A l \in leaves : tree.nodes[n].startKey <= tree.nodes[l].startKey
           /\ \E l \in leaves : tree.nodes[n].endKey = tree.nodes[l].endKey
           /\ \A l \in leaves : tree.nodes[n].endKey >= tree.nodes[l].endKey

C13_Witness ==
    \E c \in BuiltColumns :
        LET tree == hierarchies[c]
        IN /\ Depth(tree, tree.root) >= 3
           /\ \E x \in DOMAIN tree.leafNodes :
                /\ x < Len(tree.leafNodes)
                /\ tree.nodes[tree.leafNodes[x]].startKey
                       > tree.nodes[tree.leafNodes[x + 1]].startKey
           /\ \E n \in InteriorNodes(tree) :
                /\ tree.nodes[n].startKey # tree.nodes[tree.nodes[n].children[1]].startKey
                /\ tree.nodes[n].endKey
                       # tree.nodes[tree.nodes[n].children[Len(tree.nodes[n].children)]].endKey

\* The leaves a built tree holds for one source file.
LeavesOfFile(tree, file) ==
    {l \in SeqToSet(tree.leafNodes) : tree.nodes[l].filename = file.filename}

\* The records of a file inside the key range of a leaf.
RecordsIn(file, leaf) ==
    {x \in DOMAIN file.records :
        leaf.startKey <= file.records[x][1] /\ file.records[x][1] <= leaf.endKey}

RECURSIVE SumRecords(_, _, _)
SumRecords(tree, file, leaves) ==
    IF leaves = {} THEN 0
    ELSE LET l == CHOOSE x \in leaves : TRUE
         IN Cardinality(RecordsIn(file, tree.nodes[l]))
              + SumRecords(tree, file, leaves \ {l})

\* C14: every record of a source file lies in exactly one leaf of that
\* file, whose filter holds the record's value; the record counts of the
\* file's leaves sum to the file's record count, with ceil(count / N) leaves
\* of at most N records each.
C14_LeafCountConservation ==
    \A c \in BuiltColumns : \A f \in DOMAIN sst[c] :
        LET tree == hierarchies[c]
            file == sst[c][f]
            leaves == LeavesOfFile(tree, file)
            N == params.partitionSize
        IN /\ \A x \in DOMAIN file.records :
                /\ Cardinality({l \in leaves : x \in RecordsIn(file, tree.nodes[l])}) = 1
                /\ \A l \in leaves :
                     x \in RecordsIn(file, tree.nodes[l]) =>
                         exists(tree.nodes[l].bloom, file.records[x][2])
           /\ SumRecords(tree, file, leaves) = Len(file.records)
           /\ \A l \in leaves : Cardinality(RecordsIn(file, tree.nodes[l])) <= N
           /\ Cardinality(leaves) = (Len(file.records) + N - 1) \div N

C14_Witness ==
    \E c \in BuiltColumns :
        /\ params.partitionSize = 2
        /\ \E f \in DOMAIN sst[c] : Len(sst[c][f].records) < params.partitionSize
        /\ \E f \in DOMAIN sst[c] :
             /\ Len(sst[c][f].records) = params.partitionSize
             /\ Cardinality(LeavesOfFile(hierarchies[c], sst[c][f])) = 1

\* Whether a node's key range overlaps the query range of queryNodes.
Overlaps(node, qStart, qEnd) ==
    /\ qEnd = EmptyKey \/ node.startKey <= qEnd
    /\ qStart = EmptyKey \/ node.endKey >= qStart

\* C15: queryNodes returns, each exactly once, precisely the leaves whose
\* range overlaps the query range and whose filter tests positive for the
\* value.
C15_QueryNodesExact ==
    nodesFound.called =>
        LET tree == hierarchies[nodesFound.column]
            expected == {l \in SeqToSet(tree.leafNodes) :
                            /\ Overlaps(tree.nodes[l], nodesFound.qStart, nodesFound.qEnd)
                            /\ exists(tree.nodes[l].bloom, nodesFound.value)}
        IN /\ SeqToSet(nodesFound.results) = expected
           /\ Len(nodesFound.results) = Cardinality(expected)

C15_Witness ==
    /\ nodesFound.called
    /\ nodesFound.qStart # EmptyKey
    /\ nodesFound.results # <<>>
    /\ LET tree == hierarchies[nodesFound.column]
       IN /\ Depth(tree, tree.root) >= 3
          /\ \E l \in SeqToSet(tree.leafNodes) :
               /\ exists(tree.nodes[l].bloom, nodesFound.value)
               /\ ~Overlaps(tree.nodes[l], nodesFound.qStart, nodesFound.qEnd)
          /\ \E l \in SeqToSet(tree.leafNodes) :
               /\ ~exists(tree.nodes[l].bloom, nodesFound.value)
               /\ Overlaps(tree.nodes[l], nodesFound.qStart, nodesFound.qEnd)


\* ---------------------------------------------------------------------- C16

NodeHolds(i, n) ==
    \E l \in DescendantLeaves(Trees[i], n) :
        LET leaf == NodeAt(Trees, i, l)
            file == FileNamed(sst, leaf.filename)
        IN \E x \in RecordsIn(file, leaf) : file.records[x][2] = query.values[i]

NodeFalsePositive(i, n) ==
    exists(NodeAt(Trees, i, n).bloom, query.values[i]) /\ ~NodeHolds(i, n)

\* Exactly one row holds the requested values, no other row holds values[i]
\* in column i, and no filter of the queried trees is a false positive for
\* the requested value of its column.
SingleRowCase ==
    /\ ShapeOk
    /\ \E key \in Keys :
         /\ RowMatches(key)
         /\ \A other \in Keys \ {key} : \A i \in DOMAIN query.columns :
              StoredValue(query.columns[i], other) # query.values[i]
    /\ \A i \in DOMAIN query.columns : \A n \in DOMAIN Trees[i].nodes :
         ~NodeFalsePositive(i, n)

\* C17: when exactly one row holds the requested values, no other row holds
\* values[i] in any column i and no filter is a false positive for the
\* requested values, the file-scan counter after the call over n columns is
\* at most n.
C17_SingleRowScansAtMostN ==
    (pc = "done" /\ single.status = "none" /\ SingleRowCase) =>
        gSSTCheckCount <= Len(query.values)

\* The single row was found below interior roots with one scan per column.
C17_Witness ==
    /\ pc = "done" /\ single.status = "none" /\ SingleRowCase
    /\ Len(query.columns) = 2
    /\ \A i \in 1..2 : RootOf(i).filename = Memory /\ Len(Trees[i].leafNodes) >= 2
    /\ gSSTCheckCount = 2
    /\ Len(result) = 1

\* ---------------------------------------------------------------------- C18

\* The consultations of the call that were made on leaf nodes.
LeafProbes ==
    {x \in DOMAIN probeLog : NodeAt(Trees, probeLog[x][1], probeLog[x][2]).filename # Memory}

\* C18: after multiColumnQueryHierarchical returns, gBloomCheckCount is the
\* number of filter consultations the call made and gLeafBloomCheckCount the
\* number of those made on leaf nodes, for every tree shape, a root that is
\* itself a leaf included.
C18_CounterAccounting ==
    (pc = "done" /\ single.status = "none" /\ ShapeOk) =>
        /\ gBloomCheckCount = Len(probeLog)
        /\ gLeafBloomCheckCount = Cardinality(LeafProbes)

\* ---------------------------------------------------------------------- C19

RECURSIVE DfsAlone(_, _, _)
\* The keys the traversal collects from the pending calls when no other
\* call runs.
DfsAlone(trees, values, pending) ==
    IF pending = <<>> THEN <<>>
    ELSE LET out == dfsMultiColumn(trees, sst, values, Head(pending).combo,
                                   Head(pending).isInitialCall)
         IN out.keys \o DfsAlone(trees, values,
                                 [x \in 1..Len(out.calls) |->
                                     [combo |-> out.calls[x], isInitialCall |-> FALSE]]
                                 \o Tail(pending))

\* What the call q returns when it runs alone.
ResultAlone(q) ==
    LET trees == [i \in DOMAIN q.columns |-> hierarchies[q.columns[i]]]
    IN IF shapeMismatch(trees, q.values) THEN <<>>
       ELSE DfsAlone(trees, q.values,
                     <<[combo |-> startCombo(trees, q.globalStart, q.globalEnd),
                        isInitialCall |-> TRUE]>>)

\* C19: when two multiColumnQueryHierarchical calls run concurrently, each
\* returns exactly the key set it returns when run alone.
C19_ConcurrentIsolation ==
    (pc = "done" /\ concurrent.pc = "done") =>
        /\ SeqToSet(result) = SeqToSet(ResultAlone(query))
        /\ SeqToSet(concurrent.result) = SeqToSet(ResultAlone(concurrent.query))

\* ---------------------------------------------------------------------- C20

RECURSIVE ComboHeight(_, _)
\* The levels left below the nodes of a combo, summed over columns i..n.
ComboHeight(combo, i) ==
    IF i > Len(combo.nodes) THEN 0
    ELSE Depth(Trees[i], combo.nodes[i]) + ComboHeight(combo, i + 1)

\* The calls a dfsMultiColumn step has put on top of the pending ones.
Pushed == SubSeq(stack', 1, Len(stack') - Len(stack) + 1)

\* Every call dfsMultiColumn recurses into keeps each column at its node when
\* that is a leaf or moves it to a child, and moves at least one column down.
C20_EachStepDescends ==
    [][(pc = "running" /\ stack # <<>> /\ futures = <<>> /\ ~ScanDue /\ stack' # stack) =>
          \A x \in DOMAIN Pushed :
              /\ \A i \in DOMAIN Pushed[x].combo.nodes :
                    LET node == NodeAt(Trees, i, Head(stack).combo.nodes[i])
                    IN IF node.children = <<>>
                       THEN Pushed[x].combo.nodes[i] = Head(stack).combo.nodes[i]
                       ELSE Pushed[x].combo.nodes[i] \in SeqToSet(node.children)
              /\ ComboHeight(Pushed[x].combo, 1) < ComboHeight(Head(stack).combo, 1)]_vars

\* The keys of a combo are intersected and its call returns only when every
\* scan posted for it has completed.
C20_IntersectAfterScans ==
    [][(pc = "running"
          /\ (globalfinalMatches' # globalfinalMatches \/ (futures # <<>> /\ futures' = <<>>))) =>
          (futures # <<>> /\ \A i \in DOMAIN futures : futures[i].ready)]_vars

\* Once the scans of a combo are posted, all of them complete.
C20_ScansComplete ==
    (futures # <<>>) ~> (futures # <<>> /\ \A i \in DOMAIN futures : futures[i].ready)

C20_Returns == (pc = "running") ~> (pc = "done")

\* C20: with the calling thread and the pool scheduled fairly, every
\* multiColumnQueryHierarchical call on built trees returns; each recursive
\* step descends at least one column, every posted leaf scan completes, and a
\* combo is intersected only after all its scans have completed.
C20_RunsToCompletion ==
    /\ C20_Returns
    /\ C20_EachStepDescends
    /\ C20_ScansComplete
    /\ C20_IntersectAfterScans

\* A call over two trees with interior roots has returned after scanning
\* several leaf combinations, the last of them intersected.
C20_Witness ==
    /\ pc = "done" /\ ShapeOk
    /\ Len(query.columns) = 2
    /\ \A i \in 1..2 : RootOf(i).filename = Memory
    /\ Len(scanLog) >= 4
    /\ futures = <<>>
    /\ result # <<>>

\* ---------------------------------------------------------------------- C21

\* C21: with each key held by at most one file per column, no key appears
\* more than once in the list multiColumnQueryHierarchical returns, whatever
\* combinations of leaves the traversal scanned.
C21_ResultHasNoDuplicates ==
    (pc = "done" /\ ShapeOk) =>
        \A x, y \in DOMAIN result : x # y => result[x] # result[y]

\* The call returned several keys after scanning, in one column, two files
\* whose scanned key ranges overlap.
C21_Witness ==
    /\ pc = "done" /\ ShapeOk
    /\ Len(result) >= 2
    /\ \E x, y \in DOMAIN scanLog :
         /\ scanLog[x].column = scanLog[y].column
         /\ scanLog[x].filename # scanLog[y].filename
         /\ scanLog[x].scanStart <= scanLog[y].scanEnd
         /\ scanLog[y].scanStart <= scanLog[x].scanEnd

\* ---------------------------------------------------------------------- C22

RECURSIVE PathsTo(_, _, _)
RECURSIVE PathsThrough(_, _, _, _)
\* The number of ways to walk from node n down to node l along children.
PathsTo(tree, n, l) ==
    IF n = l THEN 1 ELSE PathsThrough(tree, tree.nodes[n].children, 1, l)

PathsThrough(tree, children, x, l) ==
    IF x > Len(children) THEN 0
    ELSE PathsTo(tree, children[x], l) + PathsThrough(tree, children, x + 1, l)

RECURSIVE LevelsAbove(_, _)
\* The levels buildLevel composes above a level of n nodes with fan-out r.
LevelsAbove(n, r) == IF n <= 1 THEN 0 ELSE 1 + LevelsAbove((n + r - 1) \div r, r)

\* C22: for a non-empty leaf list and fan-out r >= 2, buildTree returns
\* after as many levels as repeated grouping by r needs, with one root that
\* is nobody's child, every other node the child of exactly one node, every
\* leaf reachable from the root along exactly one path, and every interior
\* node with between 1 and r children.
C22_OneRootEveryLeafOnce ==
    \A c \in BuiltColumns :
        LET tree == hierarchies[c]
            ParentsOf(n) == {<<p, x>> \in (DOMAIN tree.nodes) \X (1..tree.ratio) :
                                /\ x <= Len(tree.nodes[p].children)
                                /\ tree.nodes[p].children[x] = n}
        IN (tree.leafNodes # <<>> /\ tree.ratio >= 2) =>
              /\ tree.root \in DOMAIN tree.nodes
              /\ ParentsOf(tree.root) = {}
              /\ \A n \in DOMAIN tree.nodes \ {tree.root} : Cardinality(ParentsOf(n)) = 1
              /\ \A l \in SeqToSet(tree.leafNodes) : PathsTo(tree, tree.root, l) = 1
              /\ \A n \in InteriorNodes(tree) :
                    Len(tree.nodes[n].children) >= 1 /\ Len(tree.nodes[n].children) <= tree.ratio
              /\ \A n \in DOMAIN tree.nodes :
                    tree.nodes[n].children = <<>> <=> n \in SeqToSet(tree.leafNodes)
              /\ Depth(tree, tree.root) = 1 + LevelsAbove(Len(tree.leafNodes), tree.ratio)

\* A tree of three levels in which one interior node has a single child and
\* another has as many as the fan-out.
C22_Witness ==
    \E c \in BuiltColumns :
        LET tree == hierarchies[c]
        IN /\ Depth(tree, tree.root) = 3
           /\ \E n \in InteriorNodes(tree) : Len(tree.nodes[n].children) = 1
           /\ \E n \in InteriorNodes(tree) : Len(tree.nodes[n].children) = tree.ratio

\* ---------------------------------------------------------------------- C23

\* The tree of the createPartitionedHierarchy call whose composition started.
ComposedTree == hierarchies[buildTasks.column]

\* The tree holds no leaf of an unreadable file, the leaves of every readable
\* file, and reaches all of them from its root.
BuiltFromReadableFiles(c, tree) ==
    /\ \A f \in DOMAIN sst[c] :
          Cardinality(LeavesOfFile(tree, sst[c][f])) =
              IF sst[c][f].readable
              THEN (Len(sst[c][f].records) + params.partitionSize - 1)
                     \div params.partitionSize
              ELSE 0
    /\ tree.leafNodes # <<>> =>
          /\ tree.root \in DOMAIN tree.nodes
          /\ DescendantLeaves(tree, tree.root) = SeqToSet(tree.leafNodes)

\* C23: a file that cannot be opened contributes no leaf, and
\* createPartitionedHierarchy returns a tree built from the leaves of the
\* other files, for every set of unreadable files, also when no file yields
\* a leaf.
C23_UnreadableFilesSkipped ==
    buildTasks.composed =>
        /\ ComposedTree.root # NoReturn
        /\ BuiltFromReadableFiles(buildTasks.column, ComposedTree)

\* ---------------------------------------------------------------------- C24

\* The tree one sequential pass over the files of column c builds.
SequentialTree(c) ==
    createPartitionedHierarchy(sst[c], params.partitionSize, params.bloomSize,
                               params.numHashFunctions, params.branchingRatio)

\* The files of the leaves of the tree, in the order of leafNodes.
LeafFileOrder(tree) ==
    [x \in DOMAIN tree.leafNodes |-> tree.nodes[tree.leafNodes[x]].filename]

\* C24: whatever order the partition tasks of a build run and finish in,
\* composition starts only when every task has finished, and the tree it
\* builds is the tree of a sequential pass over the files in list order.
C24_ScheduleIndependent ==
    [][(~buildTasks.composed /\ buildTasks'.composed) =>
          /\ Len(buildTasks.finished) = Len(sst[buildTasks.column])
          /\ \A f \in DOMAIN buildTasks.tasks : buildTasks.tasks[f].ready
          /\ hierarchies'[buildTasks.column] = SequentialTree(buildTasks.column)]_vars

\* A build of three readable files was composed after the last file's task
\* finished first and the first file's task finished last.
C24_Witness ==
    /\ buildTasks.composed
    /\ buildTasks.finished = <<3, 2, 1>>
    /\ \A f \in DOMAIN sst[buildTasks.column] : sst[buildTasks.column][f].readable
    /\ ComposedTree.root > 0
    /\ Len(ComposedTree.leafNodes) >= 3
    /\ ComposedTree = SequentialTree(buildTasks.column)

\* ---------------------------------------------------------------------- C25

\* The intersection of the ranges of the nodes of a combo with the global
\* bounds of the query; an empty bound bounds nothing.
NodesRangeStart(trees, q, combo) ==
    LET starts == {NodeAt(trees, i, combo.nodes[i]).startKey : i \in DOMAIN combo.nodes}
                    \cup (IF q.globalStart = EmptyKey THEN {} ELSE {q.globalStart})
    IN CHOOSE s \in starts : \A t \in starts : t <= s

NodesRangeEnd(trees, q, combo) ==
    LET ends == {NodeAt(trees, i, combo.nodes[i]).endKey : i \in DOMAIN combo.nodes}
                  \cup (IF q.globalEnd = EmptyKey THEN {} ELSE {q.globalEnd})
    IN CHOOSE e \in ends : \A t \in ends : e <= t

\* C25: every combo dfsMultiColumn is called with carries the intersection
\* of the ranges of its nodes with the global bounds; every combo the
\* backtracking recurses into, and so every combo that is expanded or
\* scanned, has rangeStart <= rangeEnd and lies inside the range of each
\* of its nodes.
C25_ComboInvariant ==
    pc = "running" =>
        \A x \in DOMAIN stack :
            LET combo == stack[x].combo IN
            /\ combo.rangeStart = NodesRangeStart(Trees, query, combo)
            /\ combo.rangeEnd = NodesRangeEnd(Trees, query, combo)
            /\ ~stack[x].isInitialCall =>
                  /\ combo.rangeStart <= combo.rangeEnd
                  /\ \A i \in DOMAIN combo.nodes :
                        /\ NodeAt(Trees, i, combo.nodes[i]).startKey <= combo.rangeStart
                        /\ combo.rangeEnd <= NodeAt(Trees, i, combo.nodes[i]).endKey

\* Two combos of the backtracking are pending; the first is narrower than
\* one of its nodes because of another node, the second because of a global
\* bound.
C25_Witness ==
    /\ pc = "running"
    /\ Len(stack) >= 2
    /\ ~stack[1].isInitialCall
    /\ Len(query.columns) = 2
    /\ LET combo == stack[1].combo
       IN \E i \in DOMAIN combo.nodes :
            /\ NodeAt(Trees, i, combo.nodes[i]).startKey < combo.rangeStart
            /\ \E j \in DOMAIN combo.nodes :
                   NodeAt(Trees, j, combo.nodes[j]).startKey = combo.rangeStart
    /\ LET combo == stack[2].combo
       IN /\ query.globalEnd # EmptyKey
          /\ combo.rangeEnd = query.globalEnd
          /\ \A i \in DOMAIN combo.nodes :
                 NodeAt(Trees, i, combo.nodes[i]).endKey > combo.rangeEnd

\* ---------------------------------------------------------------------- C26

\* The k-th leaf a built tree holds for a file, in the order of leafNodes.
FileLeaf(tree, file, k) ==
    LET at == {x \in DOMAIN tree.leafNodes :
                  tree.nodes[tree.leafNodes[x]].filename = file.filename}
        x == CHOOSE y \in at : Cardinality({z \in at : z < y}) = k - 1
    IN tree.nodes[tree.leafNodes[x]]

\* The filter that holds exactly the values of records[from..to].
RunFilter(tree, records, from, to) ==
    [bitArray |-> [b \in 0..(tree.bloomSize - 1) |->
                      \E x \in from..to :
                          insert(BloomFilter(tree.bloomSize, tree.numHashFunctions),
                                 records[x][2]).bitArray[b]],
     numHashFunctions |-> tree.numHashFunctions,
     bitArraySize |-> tree.bloomSize]

\* C26: the k-th leaf of a file summarizes the records (k-1)N+1 .. kN of
\* the file in key order, cut at the file's end: a non-empty run of N
\* records, fewer only for the last leaf; its filename is the file's path,
\* its startKey and endKey are the first and the last key of the run, its
\* filter holds the values of the run, and the ranges of two leaves of one
\* file do not overlap.
C26_LeafIsRunOfRecords ==
    \A c \in BuiltColumns : \A f \in DOMAIN sst[c] :
        LET tree == hierarchies[c]
            file == sst[c][f]
            N == params.partitionSize
            count == Cardinality(LeavesOfFile(tree, file))
            from(k) == (k - 1) * N + 1
            to(k) == Min(k * N, Len(file.records))
        IN /\ \A k \in 1..count :
                LET leaf == FileLeaf(tree, file, k)
                IN /\ from(k) <= to(k)
                   /\ to(k) - from(k) + 1 <= N
                   /\ k < count => to(k) - from(k) + 1 = N
                   /\ leaf.filename = file.filename
                   /\ leaf.children = <<>>
                   /\ leaf.startKey = file.records[from(k)][1]
                   /\ leaf.endKey = file.records[to(k)][1]
                   /\ leaf.bloom = RunFilter(tree, file.records, from(k), to(k))
           /\ count > 0 => to(count) = Len(file.records)
           /\ \A k1, k2 \in 1..count :
                k1 < k2 => FileLeaf(tree, file, k1).endKey < FileLeaf(tree, file, k2).startKey

\* A file of three records was cut into a leaf of N = 2 records and a last
\* leaf of one record.
C26_Witness ==
    \E c \in BuiltColumns :
        LET tree == hierarchies[c] IN
        /\ params.partitionSize = 2
        /\ \E f \in DOMAIN sst[c] :
             /\ Len(sst[c][f].records) = 3
             /\ Cardinality(LeavesOfFile(tree, sst[c][f])) = 2
             /\ FileLeaf(tree, sst[c][f], 1).endKey > FileLeaf(tree, sst[c][f], 1).startKey
             /\ FileLeaf(tree, sst[c][f], 2).endKey = FileLeaf(tree, sst[c][f], 2).startKey

\* ---------------------------------------------------------------------- C27

\* The file of column c that holds a row key.
FileOfKey(c, key) ==
    CHOOSE f \in DOMAIN sst[c] : \E r \in SeqToSet(sst[c][f].records) : r[1] = key

\* Every scan that could find the row opens its file.
RowScannable(key) ==
    \A i \in DOMAIN query.columns :
        sst[query.columns[i]][FileOfKey(query.columns[i], key)].readable

\* The scans of the call whose file could not be opened.
FailedScans == {x \in DOMAIN scanLog : ~FileNamed(sst, scanLog[x].filename).readable}

\* C27: a leaf scan whose file cannot be opened counts as a scan that found
\* nothing.  The call returns, without an error, the matching rows in range
\* whose files all open: a combo with a failed scan contributes no key, and
\* the combos after it are still scanned and contribute theirs.
C27_FailedScanFindsNothing ==
    (pc = "done" /\ ShapeOk) =>
        SeqToSet(result) = {key \in Keys : /\ InGlobalRange(key)
                                            /\ RowMatches(key)
                                            /\ RowScannable(key)}

\* The call returned a key although a scan before the last one failed, and
\* the file of the failed scan holds, inside the scanned range, a row that
\* matches in every column and is not returned.
C27_Witness ==
    /\ pc = "done" /\ ShapeOk
    /\ result # <<>>
    /\ \E x \in FailedScans :
         /\ x + Len(query.columns) <= Len(scanLog)
         /\ \E key \in Keys :
              /\ RowMatches(key) /\ InGlobalRange(key)
              /\ scanLog[x].scanStart <= key /\ key <= scanLog[x].scanEnd
              /\ sst[query.columns[scanLog[x].column]]
                    [FileOfKey(query.columns[scanLog[x].column], key)].filename
                   = scanLog[x].filename
              /\ key \notin SeqToSet(result)

\* ---------------------------------------------------------------------- C28

\* The pending call reaches the expansion step: the roots passed, the range
\* is not empty and some node of the combo is interior.
Expands(call) ==
    /\ call.isInitialCall => rootCheck(Trees, query.values, call.combo, 1).passed
    /\ call.combo.rangeStart <= call.combo.rangeEnd
    /\ ~allLeaves(Trees, call.combo)

\* The candidates of column i filtered against the range of the combo as
\* it was passed in, and against the filter.
UntightenedOptions(combo, i) ==
    LET cands == candidatesOf(Trees, combo, i)
        keep == {x \in DOMAIN cands :
                    LET nd == NodeAt(Trees, i, cands[x])
                    IN /\ ~(nd.endKey < combo.rangeStart \/ nd.startKey > combo.rangeEnd)
                       /\ exists(nd.bloom, query.values[i])}
    IN [y \in 1..Cardinality(keep) |->
           cands[CHOOSE x \in keep : Cardinality({z \in keep : z < x}) = y - 1]]

\* The calls the expansion of a combo would make from those candidates.
UntightenedCalls(combo) ==
    LET options == [i \in DOMAIN combo.nodes |-> UntightenedOptions(combo, i)]
    IN IF \E i \in DOMAIN options : options[i] = <<>> THEN <<>>
       ELSE backtrack(Trees, options, 1, combo.nodes, combo.rangeStart, combo.rangeEnd)

\* The candidates the expansion of a combo keeps with tightening.
TightenedOptions(combo) ==
    candidateColumns([candidateOptions |-> <<>>, tightStart |-> combo.rangeStart,
                      tightEnd |-> combo.rangeEnd, bloomChecks |-> 0, leafChecks |-> 0,
                      probed |-> <<>>, pruned |-> FALSE],
                     Trees, query.values, combo, 1).candidateOptions

\* C28: the combos the expansion of a combo recurses into are, in the same
\* order, the combos it would recurse into if the candidates of every
\* column were filtered against the range of the combo only, without
\* tightening by the earlier columns.
C28_TighteningPrunesOnlyDead ==
    pc = "running" =>
        \A x \in DOMAIN stack :
            Expands(stack[x]) =>
                dfsMultiColumn(Trees, sst, query.values, stack[x].combo,
                               stack[x].isInitialCall).calls
                    = UntightenedCalls(stack[x].combo)

\* The next call to expand recurses into some combo, and tightening by the
\* first column removed a candidate of the second column that passes its
\* filter and lies in the range of the combo.
C28_Witness ==
    /\ pc = "running" /\ stack # <<>>
    /\ Len(query.columns) = 2
    /\ Expands(Head(stack))
    /\ UntightenedCalls(Head(stack).combo) # <<>>
    /\ LET kept == TightenedOptions(Head(stack).combo)
       IN /\ Len(kept) = 2
          /\ Len(kept[2]) < Len(UntightenedOptions(Head(stack).combo, 2))

\* ---------------------------------------------------------------------- C29

Reversed(s) == [x \in DOMAIN s |-> s[Len(s) + 1 - x]]

\* The call with its trees and its values in the opposite column order.
Permuted(q) == [q EXCEPT !.columns = Reversed(q.columns), !.values = Reversed(q.values)]

\* C29: the set of keys multiColumnQueryHierarchical returns is the set it
\* returns when the trees and the values are passed in the opposite column
\* order.
C29_ColumnOrderIrrelevant ==
    (pc = "done" /\ ShapeOk) =>
        SeqToSet(result) = SeqToSet(ResultAlone(Permuted(query)))

\* A call over two columns with different values and trees of different
\* size returned a key, and a row in range matches in the first column
\* only while another matches in the second column only.
C29_Witness ==
    /\ pc = "done" /\ Len(query.columns) = 2 /\ Len(query.values) = 2
    /\ query.values[1] # query.values[2]
    /\ Len(Trees[1].nodes) # Len(Trees[2].nodes)
    /\ result # <<>>
    /\ \E k1, k2 \in Keys :
         /\ InGlobalRange(k1) /\ InGlobalRange(k2)
         /\ StoredValue(query.columns[1], k1) = query.values[1]
         /\ StoredValue(query.columns[2], k1) # query.values[2]
         /\ StoredValue(query.columns[1], k2) # query.values[1]
         /\ StoredValue(query.columns[2], k2) = query.values[2]

\* ---------------------------------------------------------------------- C30

\* C30: on the same tree, value and range, query returns the source paths
\* of the leaves queryNodes returns, one path per leaf and in the same
\* order.
C30_QueryShapesAgree ==
    nodesFound.queried =>
        LET tree == hierarchies[nodesFound.column]
        IN nodesFound.paths
             = [x \in DOMAIN nodesFound.results |->
                   tree.nodes[nodesFound.results[x]].filename]

\* Both calls returned two leaves of different files out of a tree of depth
\* three, with a bounded range that excludes a leaf whose filter is
\* positive.
C30_Witness ==
    /\ nodesFound.queried
    /\ nodesFound.qStart # EmptyKey
    /\ Len(nodesFound.paths) >= 2
    /\ nodesFound.paths[1] # nodesFound.paths[2]
    /\ LET tree == hierarchies[nodesFound.column]
       IN /\ Depth(tree, tree.root) >= 3
          /\ \E l \in SeqToSet(tree.leafNodes) :
               /\ exists(tree.nodes[l].bloom, nodesFound.value)
               /\ ~Overlaps(tree.nodes[l], nodesFound.qStart, nodesFound.qEnd)
====
